---- MODULE Spec2Model ----
(***************************************************************************)
(* Transfer lifecycle tracker: the in-memory event store (MemoryStore),    *)
(* the pure derivation of a Transfer from its events (computeTransferState *)
(* and detectAnomalies) and the POST /events route in front of the store.  *)
(***************************************************************************)
EXTENDS Integers, Sequences, FiniteSets, TLC

(***************************************************************************)
(* Bounds of the model.                                                    *)
(***************************************************************************)
\* accepted events over all transfers
MaxEvents == 2

\* the version counter is followed up to this value
MaxVersion == MaxEvents + 1

(***************************************************************************)
(* Domain values.                                                          *)
(***************************************************************************)
\* A bug: failed is left out of the terminal statuses.
TerminalOnlySettled == {"settled"}

TERMINAL_STATUSES == {"settled", "failed"}

VALID_STATUSES == {"initiated", "processing", "settled", "failed"}

TransferIds == {"tr_a", "tr_b"}

\* Event ids are arbitrary non-empty strings.
EventIds == {"evt_1", "evt_2"}

\* "evt_U+00E9" stands for the string evt_ followed by the single code point
\* U+00E9 (e with acute) and "evt_e_U+0301" for evt_e followed by the
\* combining acute accent U+0301: two different strings (two keys of a Set)
\* that are canonically equivalent in Unicode.
EquivalentIds == {"evt_e_U+0301", "evt_U+00E9"}

\* ISO 8601 strings as sent by the client.
Timestamps == {"2024-01-05T12:00:00Z", "2024-01-05T12:03:00Z"}

\* reason is optional; Absent stands for a missing property.
Absent == "<absent>"

\* The reason sent with a status.
ReasonOf(status) == IF status = "failed" THEN "insufficient_funds" ELSE Absent

\* The well-typed events (arrival_order is not sent) over given values.
PayloadsOf(transferIds, eventIds, statuses, timestamps) ==
    {[transfer_id |-> t, event_id |-> e, status |-> s, timestamp |-> ts, reason |-> ReasonOf(s)]
       : <<t, e, s, ts>> \in transferIds \X eventIds \X statuses \X timestamps}

\* The events callers submit.  The second transfer is there to be a different
\* transfer: it is sent one id, which the first transfer is sent too.  (The
\* derivation is followed over all statuses in SpecHistory.)
Payloads ==
    PayloadsOf({"tr_a"}, EventIds, {"initiated", "settled", "failed"}, Timestamps)
    \cup PayloadsOf({"tr_b"}, {"evt_1"}, {"settled"}, {"2024-01-05T12:00:00Z"})

\* The events callers submit while the reads are followed too.
ReadPayloads ==
    PayloadsOf({"tr_a"}, EventIds, {"initiated", "settled"}, {"2024-01-05T12:00:00Z"})
    \cup PayloadsOf({"tr_b"}, {"evt_1"}, {"settled"}, {"2024-01-05T12:00:00Z"})

\* The events callers submit when ids are not restricted to ASCII.
AnyIdPayloads == PayloadsOf({"tr_a"}, {"evt_1"} \cup EquivalentIds, VALID_STATUSES, Timestamps)

(***************************************************************************)
(* Conversions used by the comparator.                                     *)
(***************************************************************************)
\* new Date(ts).getTime() in milliseconds, counted here from
\* 2024-01-05T00:00:00Z instead of the epoch (the code only compares and
\* subtracts these numbers).
getTime(ts) ==
    CASE ts = "2024-01-05T12:00:00Z" -> 43200000
      [] ts = "2024-01-05T12:00:00.000Z" -> 43200000
      [] ts = "2024-01-05T12:01:30Z" -> 43290000
      [] ts = "2024-01-05T12:01:30.000Z" -> 43290000
      [] ts = "2024-01-05T12:03:00Z" -> 43380000
      [] ts = "2024-01-05T12:03:00.000Z" -> 43380000
      [] ts = "2024-01-05T12:04:30.000Z" -> 43470000

\* Primary collation weight of an event id under String.prototype.localeCompare.
\* Canonically equivalent strings have the same collation key.
CollationKey(id) ==
    CASE id = "evt_1" -> 1
      [] id = "evt_2" -> 2
      [] id = "evt_3" -> 3
      [] id = "evt_4" -> 4
      [] id = "evt_e_U+0301" -> 5
      [] id = "evt_U+00E9" -> 5

\* a.localeCompare(b): negative, zero or positive.  It is zero for different
\* strings that are canonically equivalent.
localeCompare(a, b) ==
    IF CollationKey(a) < CollationKey(b) THEN -1
    ELSE IF CollationKey(a) > CollationKey(b) THEN 1
    ELSE 0

\* The order of strings by UTF-16 code units (the < of the language), as a rank.
CodeUnitRank(id) ==
    CASE id = "evt_1" -> 1
      [] id = "evt_2" -> 2
      [] id = "evt_3" -> 3
      [] id = "evt_4" -> 4
      [] id = "evt_e_U+0301" -> 5
      [] id = "evt_U+00E9" -> 6

(***************************************************************************)
(* Small helpers for Map, Array and optional values.                       *)
(***************************************************************************)
\* Map.set(k, v)
MapSet(m, k, v) == [x \in (DOMAIN m) \cup {k} |-> IF x = k THEN v ELSE m[x]]

EmptyMap == [x \in {} |-> 0]

\* T | undefined: the empty sequence is undefined, <<t>> is the value t.
Undefined == <<>>

Some(t) == <<t>>

Range(seq) == {seq[i] : i \in 1..Len(seq)}

\* Array.map(e => e.event_id)
EventIdsOf(seq) == [i \in 1..Len(seq) |-> seq[i].event_id]

(***************************************************************************)
(* domain/status.ts and domain/anomalies.ts                                *)
(***************************************************************************)
\* A bug: the sort is by descending timestamp.
compareEventsDescending(a, b) ==
    LET timeDiff == getTime(b.timestamp) - getTime(a.timestamp)
    IN  IF timeDiff # 0 THEN timeDiff ELSE localeCompare(a.event_id, b.event_id)

\* The comparator of the sort: timestamp first, event_id as the tiebreaker.
compareEvents(a, b) ==
    LET timeDiff == getTime(a.timestamp) - getTime(b.timestamp)
    IN  IF timeDiff # 0 THEN timeDiff ELSE localeCompare(a.event_id, b.event_id)

\* One step of a stable sort: x arrived after every element of sorted, so it
\* goes behind all elements that do not compare greater than it.
InsertSorted(sorted, x) ==
    LET k == Cardinality({i \in 1..Len(sorted) : compareEvents(sorted[i], x) <= 0})
    IN  SubSeq(sorted, 1, k) \o <<x>> \o SubSeq(sorted, k + 1, Len(sorted))

\* [...events].sort(comparator): Array.prototype.sort is stable.
RECURSIVE sortEvents(_)
sortEvents(events) ==
    IF events = <<>> THEN <<>>
    ELSE InsertSorted(sortEvents(SubSeq(events, 1, Len(events) - 1)), events[Len(events)])

IsTerminalEvent(e) == e.status \in TERMINAL_STATUSES

\* Index of the first terminal event, 0 (for -1) when there is none.
firstTerminalIndex(events) ==
    LET idx == {i \in 1..Len(events) : IsTerminalEvent(events[i])}
    IN  IF idx = {} THEN 0 ELSE CHOOSE i \in idx : \A j \in idx : i <= j

\* A bug: events at the instant of the first terminal event are flagged too.
checkEventAfterTerminalInclusive(events) ==
    LET first == firstTerminalIndex(events)
    IN  IF first = 0 THEN <<>>
        ELSE LET terminalTimestamp == getTime(events[first].timestamp)
                 After(e) == getTime(e.timestamp) >= terminalTimestamp
                 afterTerminalEvents == SelectSeq(SubSeq(events, first + 1, Len(events)), After)
             IN  IF Len(afterTerminalEvents) > 0
                 THEN <<[type |-> "event_after_terminal",
                         message |-> "Activity detected after transfer reached terminal state ("
                                     \o events[first].status \o ")",
                         event_ids |-> EventIdsOf(afterTerminalEvents)]>>
                 ELSE <<>>

\* A bug: the warning is pushed whenever there is a terminal event, also when
\* no event is later.
checkEventAfterTerminalAlways(events) ==
    LET first == firstTerminalIndex(events)
    IN  IF first = 0 THEN <<>>
        ELSE LET terminalTimestamp == getTime(events[first].timestamp)
                 After(e) == getTime(e.timestamp) > terminalTimestamp
                 afterTerminalEvents == SelectSeq(SubSeq(events, first + 1, Len(events)), After)
             IN  <<[type |-> "event_after_terminal",
                    message |-> "Activity detected after transfer reached terminal state ("
                                \o events[first].status \o ")",
                    event_ids |-> EventIdsOf(afterTerminalEvents)]>>

\* A bug: only the event that follows the first terminal event is examined.
checkEventAfterTerminalNextOnly(events) ==
    LET first == firstTerminalIndex(events)
    IN  IF first = 0 THEN <<>>
        ELSE LET terminalTimestamp == getTime(events[first].timestamp)
                 After(e) == getTime(e.timestamp) > terminalTimestamp
                 next == IF first < Len(events) THEN first + 1 ELSE first
                 afterTerminalEvents == SelectSeq(SubSeq(events, first + 1, next), After)
             IN  IF Len(afterTerminalEvents) > 0
                 THEN <<[type |-> "event_after_terminal",
                         message |-> "Activity detected after transfer reached terminal state ("
                                     \o events[first].status \o ")",
                         event_ids |-> EventIdsOf(afterTerminalEvents)]>>
                 ELSE <<>>

checkEventAfterTerminal(events) ==
    LET first == firstTerminalIndex(events)
    IN  IF first = 0 THEN <<>>
        ELSE LET terminalTimestamp == getTime(events[first].timestamp)
                 After(e) == getTime(e.timestamp) > terminalTimestamp
                 afterTerminalEvents == SelectSeq(SubSeq(events, first + 1, Len(events)), After)
             IN  IF Len(afterTerminalEvents) > 0
                 THEN <<[type |-> "event_after_terminal",
                         message |-> "Activity detected after transfer reached terminal state ("
                                     \o events[first].status \o ")",
                         event_ids |-> EventIdsOf(afterTerminalEvents)]>>
                 ELSE <<>>

\* A bug: the failed events are left out of the list.
checkConflictingTerminalsSettledOnly(events) ==
    LET IsSettled(e) == e.status = "settled"
        IsFailed(e) == e.status = "failed"
        hasSettled == \E i \in 1..Len(events) : IsSettled(events[i])
        hasFailed == \E i \in 1..Len(events) : IsFailed(events[i])
    IN  IF hasSettled /\ hasFailed
        THEN <<[type |-> "conflicting_terminals",
                message |-> "Both settled and failed states received",
                event_ids |-> EventIdsOf(SelectSeq(events, IsSettled))]>>
        ELSE <<>>

checkConflictingTerminals(events) ==
    LET IsSettled(e) == e.status = "settled"
        IsFailed(e) == e.status = "failed"
        hasSettled == \E i \in 1..Len(events) : IsSettled(events[i])
        hasFailed == \E i \in 1..Len(events) : IsFailed(events[i])
    IN  IF hasSettled /\ hasFailed
        THEN <<[type |-> "conflicting_terminals",
                message |-> "Both settled and failed states received",
                event_ids |-> EventIdsOf(SelectSeq(events, IsSettled))
                              \o EventIdsOf(SelectSeq(events, IsFailed))]>>
        ELSE <<>>

\* A bug: only the first event is looked at.
checkMissingInitiatedFirstOnly(events) ==
    IF Len(events) > 0 /\ events[1].status # "initiated"
    THEN <<[type |-> "missing_initiated",
            message |-> "No initiated event found in transfer history",
            event_ids |-> EventIdsOf(events)]>>
    ELSE <<>>

checkMissingInitiated(events) ==
    LET hasInitiated == \E i \in 1..Len(events) : events[i].status = "initiated"
    IN  IF ~hasInitiated /\ Len(events) > 0
        THEN <<[type |-> "missing_initiated",
                message |-> "No initiated event found in transfer history",
                event_ids |-> EventIdsOf(events)]>>
        ELSE <<>>

\* The keys of statusGroups in insertion order: each status at its first event.
RECURSIVE statusGroupKeys(_)
statusGroupKeys(events) ==
    IF events = <<>> THEN <<>>
    ELSE LET before == statusGroupKeys(SubSeq(events, 1, Len(events) - 1))
             status == events[Len(events)].status
         IN  IF status \in Range(before) THEN before ELSE Append(before, status)

\* A bug: a group of one event is flagged (length > 0).
RECURSIVE duplicateStatusWarningsOffByOne(_, _)
duplicateStatusWarningsOffByOne(keys, events) ==
    IF keys = <<>> THEN <<>>
    ELSE LET status == Head(keys)
             InGroup(e) == e.status = status
             statusEvents == SelectSeq(events, InGroup)
         IN  (IF Len(statusEvents) > 0
              THEN <<[type |-> "duplicate_status",
                      message |-> "Multiple events report status \"" \o status \o "\"",
                      event_ids |-> EventIdsOf(statusEvents)]>>
              ELSE <<>>)
             \o duplicateStatusWarningsOffByOne(Tail(keys), events)

RECURSIVE duplicateStatusWarnings(_, _)
duplicateStatusWarnings(keys, events) ==
    IF keys = <<>> THEN <<>>
    ELSE LET status == Head(keys)
             InGroup(e) == e.status = status
             statusEvents == SelectSeq(events, InGroup)
         IN  (IF Len(statusEvents) > 1
              THEN <<[type |-> "duplicate_status",
                      message |-> "Multiple events report status \"" \o status \o "\"",
                      event_ids |-> EventIdsOf(statusEvents)]>>
              ELSE <<>>)
             \o duplicateStatusWarnings(Tail(keys), events)

\* A bug: the loop over the groups stops at the first group it flags.
checkDuplicateStatusFirstGroup(events) ==
    LET all == duplicateStatusWarnings(statusGroupKeys(events), events)
    IN  IF all = <<>> THEN <<>> ELSE <<all[1]>>

checkDuplicateStatus(events) == duplicateStatusWarnings(statusGroupKeys(events), events)

\* A bug: the rules are tried in turn and the first one that yields is returned.
detectAnomaliesFirstRule(events) ==
    IF checkEventAfterTerminal(events) # <<>> THEN checkEventAfterTerminal(events)
    ELSE IF checkConflictingTerminals(events) # <<>> THEN checkConflictingTerminals(events)
    ELSE IF checkMissingInitiated(events) # <<>> THEN checkMissingInitiated(events)
    ELSE checkDuplicateStatus(events)

detectAnomalies(events) ==
    checkEventAfterTerminal(events)
    \o checkConflictingTerminals(events)
    \o checkMissingInitiated(events)
    \o checkDuplicateStatus(events)

\* throw new Error(`No events found for transfer ${transferId}`): the error
\* stands in the place of the value that was to be returned.
NoEventsError(transferId) == [error |-> "No events found for transfer " \o transferId]

\* The call threw: what stands for its result is an error.
IsError(result) == "error" \in DOMAIN result

\* A bug: last_updated is taken from the event that arrived last.
computeTransferStateLastArrived(transferId, events, rejectedDuplicates) ==
    IF Len(events) = 0 THEN NoEventsError(transferId)
    ELSE
    LET sortedEvents == sortEvents(events)
        lastEvent == sortedEvents[Len(sortedEvents)]
        current_status == lastEvent.status
        warnings == detectAnomalies(sortedEvents)
    IN  [transfer_id |-> transferId,
         current_status |-> current_status,
         is_terminal |-> current_status \in TERMINAL_STATUSES,
         has_warnings |-> Len(warnings) > 0,
         last_updated |-> events[Len(events)].timestamp,
         event_count |-> Len(events),
         warnings |-> warnings,
         events |-> sortedEvents,
         rejected_duplicates |-> <<>>]

\* computeTransferState throws on an empty array.  The store passes a third
\* argument (the rejected duplicates), which the function does not declare and
\* does not read: the Transfer it returns has no rejected_duplicates property,
\* written <<>> here (a recorded list is never empty).
computeTransferState(transferId, events, rejectedDuplicates) ==
    IF Len(events) = 0 THEN NoEventsError(transferId)
    ELSE
    LET sortedEvents == sortEvents(events)
        lastEvent == sortedEvents[Len(sortedEvents)]
        current_status == lastEvent.status
        warnings == detectAnomalies(sortedEvents)
    IN  [transfer_id |-> transferId,
         current_status |-> current_status,
         is_terminal |-> current_status \in TERMINAL_STATUSES,
         has_warnings |-> Len(warnings) > 0,
         last_updated |-> lastEvent.timestamp,
         event_count |-> Len(events),
         warnings |-> warnings,
         events |-> sortedEvents,
         rejected_duplicates |-> <<>>]

(***************************************************************************)
(* store/memory.ts: the state of the MemoryStore singleton.                *)
(***************************************************************************)
VARIABLES
    events,                \* Map transfer_id -> array of events, in arrival order
    transfers,             \* Map transfer_id -> derived Transfer
    seenEventIds,          \* Map transfer_id -> Set of event_id
    arrivalOrderCounters,  \* Map transfer_id -> last arrival order number given
    rejectedDuplicates,    \* Map transfer_id -> array of rejected event_ids
    version,               \* number
    affectedTransferIds,   \* Set of transfer_id, in insertion order
    ret,                   \* what the last call on the store returned
    handlers               \* the requests to POST /events that are in progress

vars == <<events, transfers, seenEventIds, arrivalOrderCounters, rejectedDuplicates,
          version, affectedTransferIds, ret, handlers>>

storeVars == <<events, transfers, seenEventIds, arrivalOrderCounters, rejectedDuplicates,
               version, affectedTransferIds>>

\* The last call on the store: the method, the transfer_id and event_id it was
\* called with ("" where it takes none) and what it returned: isDuplicate,
\* whether a Transfer was returned (found), the ids of getAffectedTransferIds;
\* threw tells that the call raised an error instead of returning.
Ret(op, transfer_id, event_id, isDuplicate, transfer, ids) ==
    [op |-> op, transfer_id |-> transfer_id, event_id |-> event_id,
     isDuplicate |-> isDuplicate,
     found |-> transfer # Undefined /\ ~IsError(transfer[1]),
     threw |-> transfer # Undefined /\ IsError(transfer[1]),
     ids |-> ids]

RECURSIVE SumLen(_, _)
SumLen(m, keys) ==
    IF keys = {} THEN 0
    ELSE LET k == CHOOSE x \in keys : TRUE IN Len(m[k]) + SumLen(m, keys \ {k})

\* Number of stored events over all transfers.
TotalEvents == SumLen(events, DOMAIN events)

\* A bug: the affected ids are pushed to an array instead of added to a Set.
SetAddAsPush(seq, x) == Append(seq, x)

\* Set.add on a Set that keeps insertion order.
SetAdd(seq, x) == IF x \in Range(seq) THEN seq ELSE Append(seq, x)

getRejectedDuplicates(transferId) ==
    IF transferId \in DOMAIN rejectedDuplicates THEN rejectedDuplicates[transferId] ELSE <<>>

getTransfer(transferId) ==
    IF transferId \in DOMAIN transfers THEN Some(transfers[transferId]) ELSE Undefined

\* A request slot: idle, or holding a request that the router has received
\* and whose handler has not run yet, or one that was answered.  isNew notes
\* whether the event_id of the request was not yet in the log of its transfer
\* when the request was received.
Handlers == {"h1", "h2"}

IdleHandler == [pc |-> "idle", body |-> <<>>, status |-> 0, isNew |-> FALSE]

Init ==
    /\ handlers = [h \in Handlers |-> IdleHandler]
    /\ events = EmptyMap
    /\ transfers = EmptyMap
    /\ seenEventIds = EmptyMap
    /\ arrivalOrderCounters = EmptyMap
    /\ rejectedDuplicates = EmptyMap
    /\ version = 0
    /\ affectedTransferIds = <<>>
    /\ ret = Ret("new", "", "", FALSE, Undefined, <<>>)

\* A bug: the idempotency key is looked up over all transfers.
isSeenInAnyTransfer(transfer_id, event_id) ==
    \E t \in DOMAIN seenEventIds : event_id \in seenEventIds[t]

\* seenIds.has(event_id), after the Set of the transfer was created if missing.
isSeen(transfer_id, event_id) ==
    transfer_id \in DOMAIN seenEventIds /\ event_id \in seenEventIds[transfer_id]

\* The array of a transfer in the events Map, [] when it has none yet.
logOf(transfer_id) == IF transfer_id \in DOMAIN events THEN events[transfer_id] ELSE <<>>

\* A bug: the arrival order is counted over the events of all transfers.
eventWithMetadataCountingAll(event) ==
    [transfer_id |-> event.transfer_id, event_id |-> event.event_id,
     status |-> event.status, timestamp |-> event.timestamp,
     reason |-> event.reason, arrival_order |-> TotalEvents + 1]

\* The event as it is stored: the payload and the next arrival order number of
\* its transfer ((counter || 0) + 1).
eventWithMetadata(event) ==
    LET counter == IF event.transfer_id \in DOMAIN arrivalOrderCounters
                   THEN arrivalOrderCounters[event.transfer_id] ELSE 0
    IN  [transfer_id |-> event.transfer_id, event_id |-> event.event_id,
         status |-> event.status, timestamp |-> event.timestamp,
         reason |-> event.reason, arrival_order |-> counter + 1]

\* A bug: the first event of a transfer is stored without a Transfer being cached.
storeNewEventCachingLater(event, transfer) ==
    LET transfer_id == event.transfer_id
        seenIds == IF transfer_id \in DOMAIN seenEventIds THEN seenEventIds[transfer_id] ELSE {}
        stored == eventWithMetadata(event)
    IN  /\ seenEventIds' = MapSet(seenEventIds, transfer_id, seenIds \cup {event.event_id})
        /\ arrivalOrderCounters' = MapSet(arrivalOrderCounters, transfer_id, stored.arrival_order)
        /\ events' = MapSet(events, transfer_id, Append(logOf(transfer_id), stored))
        /\ transfers' = IF transfer_id \in DOMAIN events
                        THEN MapSet(transfers, transfer_id, transfer)
                        ELSE transfers
        /\ version' = version + 1
        /\ affectedTransferIds' = SetAdd(affectedTransferIds, transfer_id)
        /\ ret' = Ret("addEvent", event.transfer_id, event.event_id, FALSE, Some(transfer), <<>>)
        /\ UNCHANGED rejectedDuplicates

\* A bug: the event_id of a stored event is not added to the seen set.
storeNewEventForgettingId(event, transfer) ==
    LET transfer_id == event.transfer_id
        stored == eventWithMetadata(event)
    IN  /\ arrivalOrderCounters' = MapSet(arrivalOrderCounters, transfer_id, stored.arrival_order)
        /\ events' = MapSet(events, transfer_id, Append(logOf(transfer_id), stored))
        /\ transfers' = MapSet(transfers, transfer_id, transfer)
        /\ version' = version + 1
        /\ affectedTransferIds' = SetAdd(affectedTransferIds, transfer_id)
        /\ ret' = Ret("addEvent", event.transfer_id, event.event_id, FALSE, Some(transfer), <<>>)
        /\ UNCHANGED <<seenEventIds, rejectedDuplicates>>

\* The writes of the branch of a new event, given what the derivation of the
\* Transfer came to.  When the derivation threw, the lines after it did not
\* run: the event is stored, and no Transfer, version or affected id is.
storeNewEvent(event, transfer) ==
    LET transfer_id == event.transfer_id
        seenIds == IF transfer_id \in DOMAIN seenEventIds THEN seenEventIds[transfer_id] ELSE {}
        stored == eventWithMetadata(event)
    IN  /\ seenEventIds' = MapSet(seenEventIds, transfer_id, seenIds \cup {event.event_id})
        /\ arrivalOrderCounters' = MapSet(arrivalOrderCounters, transfer_id, stored.arrival_order)
        /\ events' = MapSet(events, transfer_id, Append(logOf(transfer_id), stored))
        /\ IF IsError(transfer)
           THEN UNCHANGED <<transfers, version, affectedTransferIds>>
           ELSE /\ transfers' = MapSet(transfers, transfer_id, transfer)
                /\ version' = version + 1
                /\ affectedTransferIds' = SetAdd(affectedTransferIds, transfer_id)
        /\ ret' = Ret("addEvent", event.transfer_id, event.event_id, FALSE, Some(transfer), <<>>)
        /\ UNCHANGED rejectedDuplicates

\* A bug: the cached Transfer is patched with the arriving event instead of
\* being derived again from the whole log.
addEventNewPatching(event) ==
    LET transfer_id == event.transfer_id
        allEvents == Append(logOf(transfer_id), eventWithMetadata(event))
    IN  storeNewEvent(event,
            IF transfer_id \in DOMAIN transfers
            THEN [transfers[transfer_id] EXCEPT !.current_status = event.status,
                                                !.event_count = @ + 1]
            ELSE computeTransferState(transfer_id, allEvents, getRejectedDuplicates(transfer_id)))

\* A bug: the Transfer is derived from the log before the event is appended.
addEventNewDerivingFirst(event) ==
    LET transfer_id == event.transfer_id
    IN  storeNewEvent(event,
            computeTransferState(transfer_id, logOf(transfer_id),
                                 getRejectedDuplicates(transfer_id)))

\* addEvent, the branch of a new event: store it, recompute from all events of
\* the transfer, advance the version.
addEventNew(event) ==
    LET transfer_id == event.transfer_id
        allEvents == Append(logOf(transfer_id), eventWithMetadata(event))
    IN  storeNewEvent(event,
            computeTransferState(transfer_id, allEvents, getRejectedDuplicates(transfer_id)))

\* A bug: a repeated event_id is processed like a new event.
addEventDuplicateAsNew(event) == addEventNew(event)

\* A bug: a repeated event_id overwrites the stored event with the payload that
\* was sent last.
addEventDuplicateOverwriting(event) ==
    LET transfer_id == event.transfer_id
        log == logOf(transfer_id)
        rewritten == [i \in 1..Len(log) |->
                        IF log[i].event_id = event.event_id
                        THEN [log[i] EXCEPT !.status = event.status,
                                            !.timestamp = event.timestamp,
                                            !.reason = event.reason]
                        ELSE log[i]]
    IN  /\ events' = MapSet(events, transfer_id, rewritten)
        /\ ret' = Ret("addEvent", transfer_id, event.event_id, TRUE, getTransfer(transfer_id), <<>>)
        /\ UNCHANGED <<transfers, rejectedDuplicates, seenEventIds, arrivalOrderCounters, version,
                       affectedTransferIds>>

\* A bug: the rejected event_id is recorded for every transfer of the store.
addEventDuplicateRejectingEverywhere(event) ==
    LET transfer_id == event.transfer_id
        event_id == event.event_id
        recorded(t) == IF event_id \in Range(getRejectedDuplicates(t))
                       THEN getRejectedDuplicates(t)
                       ELSE Append(getRejectedDuplicates(t), event_id)
    IN  /\ rejectedDuplicates' = [t \in DOMAIN events |-> recorded(t)]
        /\ ret' = Ret("addEvent", transfer_id, event_id, TRUE, getTransfer(transfer_id), <<>>)
        /\ UNCHANGED <<transfers, events, seenEventIds, arrivalOrderCounters, version,
                       affectedTransferIds>>

\* addEvent, the branch of a duplicate: record it and return the cached Transfer.
addEventDuplicate(event) ==
    LET transfer_id == event.transfer_id
        event_id == event.event_id
        old == getRejectedDuplicates(transfer_id)
        isNewRepeat == event_id \notin Range(old)
        rejected == IF isNewRepeat THEN Append(old, event_id) ELSE old
    IN  /\ rejectedDuplicates' = MapSet(rejectedDuplicates, transfer_id, rejected)
        /\ transfers' = IF isNewRepeat /\ transfer_id \in DOMAIN transfers
                        THEN MapSet(transfers, transfer_id,
                                    [transfers[transfer_id] EXCEPT !.rejected_duplicates = rejected])
                        ELSE transfers
        /\ ret' = Ret("addEvent", transfer_id, event_id, TRUE,
                      IF transfer_id \in DOMAIN transfers' THEN Some(transfers'[transfer_id])
                      ELSE Undefined,
                      <<>>)
        /\ UNCHANGED <<events, seenEventIds, arrivalOrderCounters, version, affectedTransferIds>>

\* A bug: a transfer in a terminal status takes no further events.
addEventGatedByTerminal(event) ==
    IF isSeen(event.transfer_id, event.event_id)
       \/ (event.transfer_id \in DOMAIN transfers /\ transfers[event.transfer_id].is_terminal)
    THEN addEventDuplicate(event)
    ELSE TotalEvents < MaxEvents /\ addEventNew(event)

addEvent(event) ==
    IF isSeen(event.transfer_id, event.event_id)
    THEN addEventDuplicate(event)
    ELSE TotalEvents < MaxEvents /\ addEventNew(event)

AddEvent == \E event \in Payloads : addEvent(event) /\ UNCHANGED handlers

AddEventAnyId == \E event \in AnyIdPayloads : addEvent(event) /\ UNCHANGED handlers

AddEventReads == \E event \in ReadPayloads : addEvent(event) /\ UNCHANGED handlers

\* A bug: recompute replaces the cached Transfer without advancing the version.
recomputeTransferSameVersion(transferId) ==
    IF transferId \notin DOMAIN events \/ Len(events[transferId]) = 0
    THEN /\ ret' = Ret("recomputeTransfer", transferId, "", FALSE, Undefined, <<>>)
         /\ UNCHANGED storeVars
    ELSE LET transfer == computeTransferState(transferId, events[transferId],
                                              getRejectedDuplicates(transferId))
         IN  /\ version < MaxVersion
             /\ transfers' = MapSet(transfers, transferId, transfer)
             /\ affectedTransferIds' = SetAdd(affectedTransferIds, transferId)
             /\ ret' = Ret("recomputeTransfer", transferId, "", FALSE, Some(transfer), <<>>)
             /\ UNCHANGED <<events, seenEventIds, arrivalOrderCounters, rejectedDuplicates,
                            version>>

\* A bug: recompute of an unknown id still counts as a change.
recomputeTransferCountingUnknown(transferId) ==
    IF transferId \notin DOMAIN events \/ Len(events[transferId]) = 0
    THEN /\ version < MaxVersion
         /\ version' = version + 1
         /\ affectedTransferIds' = SetAdd(affectedTransferIds, transferId)
         /\ ret' = Ret("recomputeTransfer", transferId, "", FALSE, Undefined, <<>>)
         /\ UNCHANGED <<events, transfers, seenEventIds, arrivalOrderCounters, rejectedDuplicates>>
    ELSE LET transfer == computeTransferState(transferId, events[transferId],
                                              getRejectedDuplicates(transferId))
         IN  /\ version < MaxVersion
             /\ transfers' = MapSet(transfers, transferId, transfer)
             /\ version' = version + 1
             /\ affectedTransferIds' = SetAdd(affectedTransferIds, transferId)
             /\ ret' = Ret("recomputeTransfer", transferId, "", FALSE, Some(transfer), <<>>)
             /\ UNCHANGED <<events, seenEventIds, arrivalOrderCounters, rejectedDuplicates>>

\* A bug: recompute takes the status of the event that arrived last.
recomputeTransferByArrival(transferId) ==
    IF transferId \notin DOMAIN events \/ Len(events[transferId]) = 0
    THEN /\ ret' = Ret("recomputeTransfer", transferId, "", FALSE, Undefined, <<>>)
         /\ UNCHANGED storeVars
    ELSE LET derived == computeTransferState(transferId, events[transferId],
                                            getRejectedDuplicates(transferId))
             lastArrived == events[transferId][Len(events[transferId])]
             transfer == [derived EXCEPT !.current_status = lastArrived.status,
                                         !.is_terminal = lastArrived.status \in TERMINAL_STATUSES]
         IN  /\ version < MaxVersion
             /\ transfers' = MapSet(transfers, transferId, transfer)
             /\ version' = version + 1
             /\ affectedTransferIds' = SetAdd(affectedTransferIds, transferId)
             /\ ret' = Ret("recomputeTransfer", transferId, "", FALSE, Some(transfer), <<>>)
             /\ UNCHANGED <<events, seenEventIds, arrivalOrderCounters, rejectedDuplicates>>

\* recomputeTransfer: undefined for an id without events; else the Transfer is
\* derived again and stored (nothing is stored when the derivation throws).
recomputeTransfer(transferId) ==
    IF transferId \notin DOMAIN events \/ Len(events[transferId]) = 0
    THEN /\ ret' = Ret("recomputeTransfer", transferId, "", FALSE, Undefined, <<>>)
         /\ UNCHANGED storeVars
    ELSE LET transfer == computeTransferState(transferId, events[transferId],
                                              getRejectedDuplicates(transferId))
         IN  /\ ret' = Ret("recomputeTransfer", transferId, "", FALSE, Some(transfer), <<>>)
             /\ IF IsError(transfer)
                THEN UNCHANGED storeVars
                ELSE /\ version < MaxVersion
                     /\ transfers' = MapSet(transfers, transferId, transfer)
                     /\ version' = version + 1
                     /\ affectedTransferIds' = SetAdd(affectedTransferIds, transferId)
                     /\ UNCHANGED <<events, seenEventIds, arrivalOrderCounters,
                                    rejectedDuplicates>>

RecomputeTransfer ==
    \E transferId \in TransferIds : recomputeTransfer(transferId) /\ UNCHANGED handlers

\* A bug: the affected ids are returned and kept.
getAffectedTransferIdsKeeping ==
    /\ ret' = Ret("getAffectedTransferIds", "", "", FALSE, Undefined, affectedTransferIds)
    /\ UNCHANGED storeVars

getAffectedTransferIds ==
    /\ ret' = Ret("getAffectedTransferIds", "", "", FALSE, Undefined, affectedTransferIds)
    /\ affectedTransferIds' = <<>>
    /\ UNCHANGED <<events, transfers, seenEventIds, arrivalOrderCounters, rejectedDuplicates,
                   version>>

GetAffectedTransferIds == getAffectedTransferIds /\ UNCHANGED handlers

\* Array.from(map.values()): the values of a Map as an array.  The insertion
\* order of the Map is not followed; the array here is in one fixed order of
\* the keys.
RECURSIVE ValuesOf(_, _)
ValuesOf(m, keys) ==
    IF keys = {} THEN <<>>
    ELSE LET k == CHOOSE x \in keys : TRUE IN <<m[k]>> \o ValuesOf(m, keys \ {k})

\* A bug: the has_warnings filter is tested for truth, so false filters nothing.
listTransfersTruthyWarnings(filters) ==
    LET all == ValuesOf(transfers, DOMAIN transfers)
        HasStatus(t) == t.current_status = filters.status[1]
        HasWarnings(t) == t.has_warnings = filters.has_warnings[1]
        byStatus == IF filters.status # Undefined /\ filters.status[1] # ""
                    THEN SelectSeq(all, HasStatus)
                    ELSE all
        byWarnings == IF filters.has_warnings # Undefined /\ filters.has_warnings[1]
                      THEN SelectSeq(byStatus, HasWarnings)
                      ELSE byStatus
    IN  [transfers |-> byWarnings, total |-> Len(byWarnings)]

\* listTransfers: the Transfers that pass the filters that are given.  A filter
\* is Undefined or Some(value); an empty status string is falsy and filters
\* nothing.
listTransfers(filters) ==
    LET all == ValuesOf(transfers, DOMAIN transfers)
        HasStatus(t) == t.current_status = filters.status[1]
        HasWarnings(t) == t.has_warnings = filters.has_warnings[1]
        byStatus == IF filters.status # Undefined /\ filters.status[1] # ""
                    THEN SelectSeq(all, HasStatus)
                    ELSE all
        byWarnings == IF filters.has_warnings # Undefined
                      THEN SelectSeq(byStatus, HasWarnings)
                      ELSE byStatus
    IN  [transfers |-> byWarnings, total |-> Len(byWarnings)]

getVersion == version

\* The filters a caller passes.
Filters ==
    [status : {Undefined} \cup {Some(s) : s \in {"settled", "", "unknown"}},
     has_warnings : {Undefined, Some(TRUE), Some(FALSE)}]

\* A bug: a read derives the Transfer again before returning it.
GetTransferRecomputing ==
    \E transferId \in TransferIds \cup {"tr_unknown"} :
        /\ UNCHANGED handlers
        /\ IF transferId \in DOMAIN events
           THEN LET transfer == computeTransferState(transferId, events[transferId],
                                                     getRejectedDuplicates(transferId))
                IN  /\ version < MaxVersion
                    /\ transfers' = MapSet(transfers, transferId, transfer)
                    /\ version' = version + 1
                    /\ affectedTransferIds' = SetAdd(affectedTransferIds, transferId)
                    /\ ret' = Ret("getTransfer", transferId, "", FALSE, Some(transfer), <<>>)
                    /\ UNCHANGED <<events, seenEventIds, arrivalOrderCounters, rejectedDuplicates>>
           ELSE /\ ret' = Ret("getTransfer", transferId, "", FALSE, Undefined, <<>>)
                /\ UNCHANGED storeVars

\* The reads, as calls: they return without writing to the store.
GetTransfer ==
    \E transferId \in TransferIds \cup {"tr_unknown"} :
        /\ ret' = Ret("getTransfer", transferId, "", FALSE, getTransfer(transferId), <<>>)
        /\ UNCHANGED <<storeVars, handlers>>

\* What a call of listTransfers was given and what it returned.
ListRet(filters, result) ==
    [op |-> "listTransfers", filters |-> filters,
     transfers |-> result.transfers, total |-> result.total]

ListTransfers ==
    \E filters \in Filters :
        /\ ret' = ListRet(filters, listTransfers(filters))
        /\ UNCHANGED <<storeVars, handlers>>

GetVersion ==
    /\ ret' = Ret("getVersion", "", "", FALSE, Undefined, <<>>)
    /\ getVersion >= 0
    /\ UNCHANGED <<storeVars, handlers>>

\* The calls on the store that write.
Next ==
    \/ AddEvent
    \/ RecomputeTransfer
    \/ GetAffectedTransferIds

Spec == Init /\ [][Next]_vars

\* The store with its reads.
NextReads ==
    \/ AddEventReads
    \/ RecomputeTransfer
    \/ GetAffectedTransferIds
    \/ GetTransfer
    \/ ListTransfers
    \/ GetVersion

SpecReads == Init /\ [][NextReads]_vars

\* The store when event ids are arbitrary strings.
NextAnyId ==
    \/ AddEventAnyId
    \/ RecomputeTransfer
    \/ GetAffectedTransferIds

SpecAnyId == Init /\ [][NextAnyId]_vars

(***************************************************************************)
(* validation.ts and routes/events.ts: POST /events.                       *)
(***************************************************************************)
\* z.string().datetime(): the strings that are ISO 8601 UTC date-times.
isDatetime(s) ==
    s \in {"2024-01-05T12:00:00Z", "2024-01-05T12:00:00.000Z", "2024-01-05T12:01:30Z",
           "2024-01-05T12:03:00Z"}

\* eventSchema.safeParse(body).success
safeParseSuccess(body) ==
    /\ body.transfer_id \notin {Absent, ""}
    /\ body.event_id \notin {Absent, ""}
    /\ body.status \in VALID_STATUSES
    /\ body.timestamp # Absent /\ isDatetime(body.timestamp)

\* The request bodies that clients send: events, and bodies that are no events.
Body(t, e, s, ts) ==
    [transfer_id |-> t, event_id |-> e, status |-> s, timestamp |-> ts, reason |-> ReasonOf(s)]

HttpBodies ==
    {Body("tr_a", "evt_1", "initiated", "2024-01-05T12:00:00Z"),
     Body("tr_a", "evt_1", "settled", "2024-01-05T12:03:00Z"),
     Body("tr_a", "evt_2", "failed", "2024-01-05T12:00:00Z"),
     Body("tr_b", "evt_1", "settled", "2024-01-05T12:00:00Z"),
     Body("tr_a", Absent, Absent, Absent),
     Body("tr_a", "evt_2", "cancelled", "2024-01-05T12:00:00Z"),
     Body("tr_a", "evt_2", "settled", "yesterday")}

\* The router hands a request to the route; its handler runs in a later turn
\* of the event loop, so requests received before it ran are in flight together.
Receive(h, body) ==
    /\ handlers[h].pc \in {"idle", "responded"}
    /\ handlers' = [handlers EXCEPT ![h] =
                      [pc |-> "received", body |-> Some(body), status |-> 0,
                       isNew |-> safeParseSuccess(body)
                                 /\ ~(body.transfer_id \in DOMAIN events
                                      /\ body.event_id \in Range(EventIdsOf(events[body.transfer_id])))]]
    /\ UNCHANGED <<storeVars, ret>>

Respond(h, status) == handlers' = [handlers EXCEPT ![h].pc = "responded", ![h].status = status]

\* A bug: the idempotency check is taken when the request is received and the
\* insert is made later, when the handler runs.
postEventsCheckThenAct(h) ==
    LET body == handlers[h].body[1]
    IN  /\ handlers[h].pc = "received"
        /\ IF ~safeParseSuccess(body)
           THEN Respond(h, 422) /\ UNCHANGED <<storeVars, ret>>
           ELSE /\ IF handlers[h].isNew THEN addEventNew(body) ELSE addEventDuplicate(body)
                /\ Respond(h, IF ret'.isDuplicate THEN 200 ELSE 201)

\* A bug: the body is handed to the store before the result of the validation
\* is looked at.
postEventsStoringFirst(h) ==
    LET body == handlers[h].body[1]
    IN  /\ handlers[h].pc = "received"
        /\ addEvent(body)
        /\ Respond(h, IF ~safeParseSuccess(body) THEN 422
                      ELSE IF ret'.isDuplicate THEN 200 ELSE 201)

\* The handler of POST /events: it runs to its response without yielding
\* (nothing in it awaits), so validation, store.addEvent and the response are
\* one step.
postEvents(h) ==
    LET body == handlers[h].body[1]
    IN  /\ handlers[h].pc = "received"
        /\ IF ~safeParseSuccess(body)
           THEN Respond(h, 422) /\ UNCHANGED <<storeVars, ret>>
           ELSE /\ addEvent(body)
                /\ Respond(h, IF ret'.isDuplicate THEN 200 ELSE 201)

ReceiveRequest == \E h \in Handlers, body \in HttpBodies : Receive(h, body)

PostEvents == \E h \in Handlers : postEvents(h)

NextHttp ==
    \/ ReceiveRequest
    \/ PostEvents

SpecHttp == Init /\ [][NextHttp]_vars

(***************************************************************************)
(* The store holding one transfer with a given history: the derivation     *)
(* (computeTransferState, detectAnomalies) over histories of up to four    *)
(* events in every order of arrival.                                       *)
(***************************************************************************)
\* The arrangements of the elements of a set in a row.
ArrivalOrders(S) ==
    {f \in [1..Cardinality(S) -> S] : \A i, j \in 1..Cardinality(S) : f[i] = f[j] => i = j}

\* The logs of one transfer in which each of the given event ids was accepted
\* once, in any order of arrival, with statuses and timestamps of the given sets.
LogsOf(transferId, eventIds, statuses, timestamps) ==
    {[i \in 1..Cardinality(eventIds) |->
         [transfer_id |-> transferId, event_id |-> order[i],
          status |-> what[order[i]][1], timestamp |-> what[order[i]][2],
          reason |-> ReasonOf(what[order[i]][1]), arrival_order |-> i]]
       : order \in ArrivalOrders(eventIds), what \in [eventIds -> statuses \X timestamps]}

\* Histories of one, two and three events over all statuses and three
\* instants, and of four events over two statuses and two instants.
Histories ==
    UNION {LogsOf("tr_a", ids, VALID_STATUSES,
                  {"2024-01-05T12:00:00Z", "2024-01-05T12:01:30Z", "2024-01-05T12:03:00Z"})
             : ids \in (SUBSET {"evt_1", "evt_2", "evt_3"}) \ {{}}}
    \cup LogsOf("tr_a", {"evt_1", "evt_2", "evt_3", "evt_4"}, {"processing", "settled"},
                {"2024-01-05T12:00:00Z", "2024-01-05T12:03:00Z"})

\* The store after addEvent was called, on the empty store, with each event
\* of the log in turn.
InitHistory ==
    \E log \in Histories :
        LET transfer_id == log[1].transfer_id
            transfer == computeTransferState(transfer_id, log, <<>>)
        IN  /\ handlers = [h \in Handlers |-> IdleHandler]
            /\ events = MapSet(EmptyMap, transfer_id, log)
            /\ transfers = MapSet(EmptyMap, transfer_id, transfer)
            /\ seenEventIds = MapSet(EmptyMap, transfer_id, Range(EventIdsOf(log)))
            /\ arrivalOrderCounters = MapSet(EmptyMap, transfer_id, Len(log))
            /\ rejectedDuplicates = EmptyMap
            /\ version = Len(log)
            /\ affectedTransferIds = <<transfer_id>>
            /\ ret = Ret("addEvent", transfer_id, log[Len(log)].event_id, FALSE,
                         Some(transfer), <<>>)

\* An initiated event that callers send, and send again.
ResubmitPayloads == PayloadsOf({"tr_a"}, {"evt_1"}, {"initiated"}, {"2024-01-05T12:00:00Z"})

AddEventAgain == \E event \in ResubmitPayloads : addEvent(event) /\ UNCHANGED handlers

NextHistory ==
    \/ AddEventAgain
    \/ RecomputeTransfer

SpecHistory == InitHistory /\ [][NextHistory]_vars

(***************************************************************************)
(* routes/transfers.ts: GET /transfers/:id and POST /transfers/:id/recompute.*)
(* These handlers are synchronous: each runs to its response in one step.  *)
(***************************************************************************)
\* The ids clients ask for: those of the transfers and one that is never sent
\* an event.
RequestedIds == TransferIds \cup {"tr_unknown"}

\* req.params.id of a request to a route
RouteRequest(route, transferId) == [route |-> route, transfer_id |-> transferId]

\* res.status(404).json(...) when the store returned undefined, res.json(transfer)
\* (status 200) otherwise; the slot keeps the request and the status.
AnswerTransfer(h, request, found) ==
    handlers' = [handlers EXCEPT ![h] = [pc |-> "responded", body |-> Some(request),
                                         status |-> IF found THEN 200 ELSE 404,
                                         isNew |-> FALSE]]

\* router.get("/:id")
getTransferById(h, transferId) ==
    LET transfer == getTransfer(transferId)
    IN  /\ handlers[h].pc # "received"
        /\ ret' = Ret("getTransfer", transferId, "", FALSE, transfer, <<>>)
        /\ AnswerTransfer(h, RouteRequest("GET /transfers/:id", transferId), transfer # Undefined)
        /\ UNCHANGED storeVars

\* router.post("/:id/recompute")
postRecompute(h, transferId) ==
    /\ handlers[h].pc # "received"
    /\ recomputeTransfer(transferId)
    /\ AnswerTransfer(h, RouteRequest("POST /transfers/:id/recompute", transferId), ret'.found)

\* A synchronous handler is never in flight together with another one: one
\* slot holds the last response.
SyncSlot == "h1"

GetTransferById == \E transferId \in RequestedIds : getTransferById(SyncSlot, transferId)

PostRecompute == \E transferId \in RequestedIds : postRecompute(SyncSlot, transferId)

\* The store behind the routes of routes/transfers.ts.
NextRoutes ==
    \/ AddEventReads
    \/ GetTransferById
    \/ PostRecompute
    \/ GetAffectedTransferIds

SpecRoutes == Init /\ [][NextRoutes]_vars

(***************************************************************************)
(* routes/transfers.ts: GET /transfers/version, and the clients that poll  *)
(* it (the Transfer Orchestrator, the pages of the UI).                    *)
(***************************************************************************)
\* The clients that poll the one endpoint of the one store.
Clients == {"c1", "c2"}

\* What a client keeps between polls: the version of its last response
\* (knownVersion, 0 before the first response); pc tells whether it has polled
\* before.  mutated is a history of the run, not a field of the program: the
\* transfer_ids that an accepted event or a recompute changed since this
\* client's last poll.
ClientState(pc, knownVersion, mutated) ==
    [pc |-> pc, knownVersion |-> knownVersion, mutated |-> mutated]

\* A call that changed the given transfers is noted in the history of every client.
NoteMutated(ids) ==
    handlers' = [c \in DOMAIN handlers |-> [handlers[c] EXCEPT !.mutated = @ \cup ids]]

\* The events the downstream systems send while the clients poll.
PollPayloads ==
    PayloadsOf({"tr_a"}, EventIds, {"initiated"}, {"2024-01-05T12:00:00Z"})
    \cup PayloadsOf({"tr_b"}, {"evt_1"}, {"settled"}, {"2024-01-05T12:00:00Z"})

\* The body of the response of GET /transfers/version in the current state.
versionResponse == [version |-> getVersion, affected_transfer_ids |-> affectedTransferIds]

\* router.get("/version"): the version and the drained affected ids in one
\* synchronous step; the client then keeps the version.
getTransfersVersion(c) ==
    /\ getAffectedTransferIds
    /\ handlers' = [handlers EXCEPT ![c] = ClientState("polled", versionResponse.version, {})]

InitPoll ==
    /\ handlers = [c \in Clients |-> ClientState("start", 0, {})]
    /\ events = EmptyMap
    /\ transfers = EmptyMap
    /\ seenEventIds = EmptyMap
    /\ arrivalOrderCounters = EmptyMap
    /\ rejectedDuplicates = EmptyMap
    /\ version = 0
    /\ affectedTransferIds = <<>>
    /\ ret = Ret("new", "", "", FALSE, Undefined, <<>>)

AddEventPolled ==
    \E event \in PollPayloads :
        /\ addEvent(event)
        /\ NoteMutated(IF ret'.isDuplicate THEN {} ELSE {event.transfer_id})

RecomputeTransferPolled ==
    \E transferId \in TransferIds :
        /\ recomputeTransfer(transferId)
        /\ NoteMutated(IF ret'.found THEN {transferId} ELSE {})

GetTransfersVersion == \E c \in Clients : getTransfersVersion(c)

NextPoll ==
    \/ AddEventPolled
    \/ RecomputeTransferPolled
    \/ GetTransfersVersion

SpecPoll == InitPoll /\ [][NextPoll]_vars

(***************************************************************************)
(* public/app.js: a page of the UI, which polls GET /transfers/version and *)
(* reloads the view it shows.                                              *)
(***************************************************************************)
Pages == {"page"}

\* The variables of a page: currentView, currentTransferId ("null" for null),
\* knownVersion; pc tells whether pollVersion has run before; timer, that a
\* timeout set by pollVersion is pending.  Not fields of the program: mutated,
\* the transfer_ids changed since the last poll of the page, and loaded, the
\* view that the last step of the page loaded ("none" when it loaded nothing).
PageState(currentView, currentTransferId, knownVersion, pc, timer, mutated, loaded) ==
    [currentView |-> currentView, currentTransferId |-> currentTransferId,
     knownVersion |-> knownVersion, pc |-> pc, timer |-> timer,
     mutated |-> mutated, loaded |-> loaded]

\* showReloadBanner(affectedIds): the view it loads.
showReloadBanner(page, affectedIds) ==
    IF page.currentView = "detail" /\ page.currentTransferId \in Range(affectedIds)
    THEN "detail"
    ELSE IF page.currentView = "list" /\ Len(affectedIds) > 0
    THEN "list"
    ELSE "none"

\* pollVersion: the request is answered by router.get("/version") in one
\* synchronous step; the page then compares the version with knownVersion,
\* reloads through showReloadBanner, sets the timeout and keeps the version.
pollVersion(p) ==
    LET page == handlers[p]
        data == versionResponse
        changed == page.knownVersion > 0 /\ data.version # page.knownVersion
    IN  /\ getAffectedTransferIds
        /\ handlers' = [handlers EXCEPT ![p] =
              PageState(page.currentView, page.currentTransferId, data.version, "polled",
                        page.timer \/ changed, {},
                        IF changed THEN showReloadBanner(page, data.affected_transfer_ids)
                        ELSE "none")]

\* The callback of the timeout of pollVersion: the list is loaded again when
\* the list view is shown.
highlightTimeout(p) ==
    /\ handlers[p].timer
    /\ handlers' = [handlers EXCEPT ![p].timer = FALSE,
                                    ![p].loaded = IF handlers[p].currentView = "list"
                                                  THEN "list" ELSE "none"]
    /\ UNCHANGED <<storeVars, ret>>

\* showListView, on a click on the back button.
showListView(p) ==
    /\ handlers[p].currentView = "detail"
    /\ handlers' = [handlers EXCEPT ![p].currentView = "list", ![p].loaded = "list"]
    /\ UNCHANGED <<storeVars, ret>>

\* showDetailView(transferId), on a click on a row of the list.
showDetailView(p, transferId) ==
    /\ handlers[p].currentView = "list"
    /\ transferId \in DOMAIN transfers
    /\ handlers' = [handlers EXCEPT ![p].currentView = "detail",
                                    ![p].currentTransferId = transferId,
                                    ![p].loaded = "detail"]
    /\ UNCHANGED <<storeVars, ret>>

\* The page right after the script ran: showListView() has loaded the list.
InitUi ==
    /\ handlers = [p \in Pages |-> PageState("list", "null", 0, "start", FALSE, {}, "list")]
    /\ events = EmptyMap
    /\ transfers = EmptyMap
    /\ seenEventIds = EmptyMap
    /\ arrivalOrderCounters = EmptyMap
    /\ rejectedDuplicates = EmptyMap
    /\ version = 0
    /\ affectedTransferIds = <<>>
    /\ ret = Ret("new", "", "", FALSE, Undefined, <<>>)

PollVersion == \E p \in Pages : pollVersion(p)

HighlightTimeout == \E p \in Pages : highlightTimeout(p)

ShowListView == \E p \in Pages : showListView(p)

ShowDetailView == \E p \in Pages, transferId \in TransferIds : showDetailView(p, transferId)

\* Another client of GET /transfers/version (the Transfer Orchestrator) polls.
OtherClientPolls == getAffectedTransferIds /\ UNCHANGED handlers

NextUi ==
    \/ AddEventPolled
    \/ RecomputeTransferPolled
    \/ PollVersion
    \/ HighlightTimeout
    \/ ShowListView
    \/ ShowDetailView
    \/ OtherClientPolls

SpecUi == InitUi /\ [][NextUi]_vars

(***************************************************************************)
(* tests/fixtures.ts and tests/helpers.ts: the ten scenarios, each sent to *)
(* an empty store in its arrival order.                                    *)
(***************************************************************************)
\* new Date(baseTime + i * 90_000).toISOString() for i = 0, 1, 2, 3.
FixtureTimestamps ==
    <<"2024-01-05T12:00:00.000Z", "2024-01-05T12:01:30.000Z", "2024-01-05T12:03:00.000Z",
      "2024-01-05T12:04:30.000Z">>

\* A step of makeEvents: a status alone, or with a reason or an event_id.
Step(status) == [status |-> status, reason |-> Absent, event_id |-> Absent]

StepWith(status, reason, event_id) == [status |-> status, reason |-> reason, event_id |-> event_id]

\* makeEvents(transferId, steps)
makeEvents(transferId, steps) ==
    [i \in 1..Len(steps) |->
        [transfer_id |-> transferId,
         event_id |-> IF steps[i].event_id # Absent THEN steps[i].event_id
                      ELSE "evt_" \o transferId \o "_" \o ToString(i),
         status |-> steps[i].status,
         timestamp |-> FixtureTimestamps[i],
         reason |-> steps[i].reason]]

Scenario(name, scenarioEvents, current_status, is_terminal, warning_types, event_count) ==
    [name |-> name, events |-> scenarioEvents,
     expected |-> [current_status |-> current_status, is_terminal |-> is_terminal,
                   warning_types |-> warning_types, event_count |-> event_count]]

happyPath ==
    Scenario("Happy path",
             makeEvents("tr_happy", <<Step("initiated"), Step("processing"), Step("settled")>>),
             "settled", TRUE, {}, 3)

outOfOrder ==
    LET evts == makeEvents("tr_ooo", <<Step("initiated"), Step("processing"), Step("settled")>>)
    IN  Scenario("Out-of-order arrival", <<evts[3], evts[1], evts[2]>>, "settled", TRUE, {}, 3)

conflictingTerminals ==
    Scenario("Conflicting terminals",
             makeEvents("tr_conflict", <<Step("initiated"), Step("processing"), Step("settled"),
                                         StepWith("failed", "chargeback", Absent)>>),
             "failed", TRUE, {"conflicting_terminals", "event_after_terminal"}, 4)

eventAfterTerminal ==
    Scenario("Event after terminal",
             makeEvents("tr_after_term", <<Step("initiated"), Step("settled"), Step("processing")>>),
             "processing", FALSE, {"event_after_terminal"}, 3)

missingInitiated ==
    Scenario("Missing initiated",
             makeEvents("tr_no_init", <<Step("processing"), Step("settled")>>),
             "settled", TRUE, {"missing_initiated"}, 2)

duplicateStatus ==
    Scenario("Duplicate status",
             makeEvents("tr_dup_status",
                        <<Step("initiated"), Step("processing"),
                          StepWith("processing", Absent, "evt_tr_dup_status_extra"),
                          Step("settled")>>),
             "settled", TRUE, {"duplicate_status"}, 4)

duplicateEvent ==
    LET evts == makeEvents("tr_idemp", <<Step("initiated"), Step("processing")>>)
    IN  Scenario("Duplicate event (idempotency)", evts \o <<evts[1]>>, "processing", FALSE, {}, 2)

failedWithReason ==
    Scenario("Failed with reason",
             makeEvents("tr_failed", <<Step("initiated"), Step("processing"),
                                       StepWith("failed", "insufficient_funds", Absent)>>),
             "failed", TRUE, {}, 3)

singleEvent ==
    Scenario("Single event", makeEvents("tr_single", <<Step("initiated")>>),
             "initiated", FALSE, {}, 1)

multipleAnomalies ==
    Scenario("Multiple anomalies",
             makeEvents("tr_multi_warn", <<Step("processing"), Step("settled"),
                                           StepWith("failed", "timeout", Absent)>>),
             "failed", TRUE,
             {"missing_initiated", "conflicting_terminals", "event_after_terminal"}, 3)

ALL_SCENARIOS ==
    {happyPath, outOfOrder, conflictingTerminals, eventAfterTerminal, missingInitiated,
     duplicateStatus, duplicateEvent, failedWithReason, singleEvent, multipleAnomalies}

\* The run of one scenario: the scenario and how many of its events were sent.
FixtureRun(scenario, sent) == [scenario |-> scenario, sent |-> sent]

InitFixtures ==
    /\ handlers \in {FixtureRun(scenario, 0) : scenario \in ALL_SCENARIOS}
    /\ events = EmptyMap
    /\ transfers = EmptyMap
    /\ seenEventIds = EmptyMap
    /\ arrivalOrderCounters = EmptyMap
    /\ rejectedDuplicates = EmptyMap
    /\ version = 0
    /\ affectedTransferIds = <<>>
    /\ ret = Ret("new", "", "", FALSE, Undefined, <<>>)

\* store.addEvent(event) on an event of a scenario (a scenario is finite: no
\* bound on the number of stored events is needed).
addFixtureEvent(event) ==
    IF isSeen(event.transfer_id, event.event_id)
    THEN addEventDuplicate(event)
    ELSE addEventNew(event)

\* The next event of the scenario is sent.
SendFixtureEvent ==
    /\ handlers.sent < Len(handlers.scenario.events)
    /\ addFixtureEvent(handlers.scenario.events[handlers.sent + 1])
    /\ handlers' = FixtureRun(handlers.scenario, handlers.sent + 1)

\* An event of the scenario that was sent before is sent again (the seed
\* script is run a second time).
ResendFixtureEvent ==
    \E i \in 1..handlers.sent :
        /\ addFixtureEvent(handlers.scenario.events[i])
        /\ UNCHANGED handlers

NextFixtures ==
    \/ SendFixtureEvent
    \/ ResendFixtureEvent
    \/ GetAffectedTransferIds

SpecFixtures == InitFixtures /\ [][NextFixtures]_vars

(***************************************************************************)
(* store/memory.ts: clear(), which the tests call between cases.           *)
(***************************************************************************)
\* A bug: the seen event ids are kept.
clearKeepingSeen ==
    /\ events' = EmptyMap
    /\ transfers' = EmptyMap
    /\ arrivalOrderCounters' = EmptyMap
    /\ rejectedDuplicates' = EmptyMap
    /\ version' = 0
    /\ affectedTransferIds' = <<>>
    /\ ret' = Ret("clear", "", "", FALSE, Undefined, <<>>)
    /\ UNCHANGED seenEventIds

\* A bug: the affected ids are kept.
clearKeepingAffected ==
    /\ events' = EmptyMap
    /\ transfers' = EmptyMap
    /\ seenEventIds' = EmptyMap
    /\ arrivalOrderCounters' = EmptyMap
    /\ rejectedDuplicates' = EmptyMap
    /\ version' = 0
    /\ ret' = Ret("clear", "", "", FALSE, Undefined, <<>>)
    /\ UNCHANGED affectedTransferIds

clear ==
    /\ events' = EmptyMap
    /\ transfers' = EmptyMap
    /\ seenEventIds' = EmptyMap
    /\ arrivalOrderCounters' = EmptyMap
    /\ rejectedDuplicates' = EmptyMap
    /\ version' = 0
    /\ affectedTransferIds' = <<>>
    /\ ret' = Ret("clear", "", "", FALSE, Undefined, <<>>)

\* A history of the run, not a field of the program: the seen event ids and
\* the version that the last call of clear found.
BeforeClear(seen, foundVersion) == [seen |-> seen, version |-> foundVersion]

InitClear ==
    /\ handlers = BeforeClear(EmptyMap, 0)
    /\ events = EmptyMap
    /\ transfers = EmptyMap
    /\ seenEventIds = EmptyMap
    /\ arrivalOrderCounters = EmptyMap
    /\ rejectedDuplicates = EmptyMap
    /\ version = 0
    /\ affectedTransferIds = <<>>
    /\ ret = Ret("new", "", "", FALSE, Undefined, <<>>)

Clear == clear /\ handlers' = BeforeClear(seenEventIds, version)

\* The store with clear().
NextClear ==
    \/ AddEventReads
    \/ RecomputeTransfer
    \/ GetAffectedTransferIds
    \/ Clear

SpecClear == InitClear /\ [][NextClear]_vars

(***************************************************************************)
(* store/memory.ts: the version and the affected ids between two drains.   *)
(***************************************************************************)
\* A history of the run, not a field of the program: the version at the last
\* call of getAffectedTransferIds or clear (0 at the start).
LastDrain(atVersion) == [version |-> atVersion]

InitDrain ==
    /\ handlers = LastDrain(0)
    /\ events = EmptyMap
    /\ transfers = EmptyMap
    /\ seenEventIds = EmptyMap
    /\ arrivalOrderCounters = EmptyMap
    /\ rejectedDuplicates = EmptyMap
    /\ version = 0
    /\ affectedTransferIds = <<>>
    /\ ret = Ret("new", "", "", FALSE, Undefined, <<>>)

GetAffectedTransferIdsNoted == getAffectedTransferIds /\ handlers' = LastDrain(version)

ClearNoted == clear /\ handlers' = LastDrain(0)

\* The store with its drains noted.
NextDrain ==
    \/ AddEventReads
    \/ RecomputeTransfer
    \/ GetAffectedTransferIdsNoted
    \/ ClearNoted

SpecDrain == InitDrain /\ [][NextDrain]_vars

(***************************************************************************)
(* Notions the properties are stated with.                                 *)
(***************************************************************************)
\* The event_id was accepted for the transfer: an event with it is in the log.
InLog(transfer_id, event_id) ==
    /\ transfer_id \in DOMAIN events
    /\ \E i \in 1..Len(events[transfer_id]) : events[transfer_id][i].event_id = event_id

\* The fields of a Transfer other than the diagnostic rejected_duplicates.
LoadBearing(t) ==
    <<t.current_status, t.is_terminal, t.last_updated, t.event_count, t.warnings, t.events>>

\* a is not after b in the order (timestamp, then event_id by code units).
NotAfter(a, b) ==
    \/ getTime(a.timestamp) < getTime(b.timestamp)
    \/ /\ getTime(a.timestamp) = getTime(b.timestamp)
       /\ CodeUnitRank(a.event_id) <= CodeUnitRank(b.event_id)

\* The event of a non-empty log that is maximal under (timestamp, event_id).
MaximalEvent(log) ==
    log[CHOOSE i \in 1..Len(log) : \A j \in 1..Len(log) : NotAfter(log[j], log[i])]

(***************************************************************************)
(* C1: addEvent with an event_id already accepted for the transfer returns *)
(* isDuplicate = true, appends nothing to the log and leaves the cached    *)
(* Transfer's current_status, is_terminal, last_updated, event_count,      *)
(* warnings and events as they were.                                       *)
(***************************************************************************)
C1_DuplicateIsNoOp ==
    [][(ret'.op = "addEvent" /\ InLog(ret'.transfer_id, ret'.event_id)) =>
          /\ ret'.isDuplicate
          /\ ret'.found
          /\ events' = events
          /\ DOMAIN transfers' = DOMAIN transfers
          /\ LoadBearing(transfers'[ret'.transfer_id]) = LoadBearing(transfers[ret'.transfer_id])]_vars

\* A duplicate was submitted and recorded after a second event had arrived.
C1_Witness ==
    /\ ret.op = "addEvent"
    /\ ret.isDuplicate
    /\ \E t \in DOMAIN transfers :
          /\ transfers[t].rejected_duplicates # <<>>
          /\ transfers[t].event_count = 2

(***************************************************************************)
(* C3: for every transfer with an accepted event, the cached current_status*)
(* is the status of the event that is maximal under (timestamp, then       *)
(* event_id) among the accepted events, whatever the order of arrival.     *)
(***************************************************************************)
C3_LatestByTimestampWins ==
    \A t \in DOMAIN events :
        /\ t \in DOMAIN transfers
        /\ transfers[t].current_status = MaximalEvent(events[t]).status

(***************************************************************************)
(* C4: events[] of every cached Transfer is sorted by timestamp ascending, *)
(* ties broken by event_id ascending, whatever the order of arrival.       *)
(***************************************************************************)
C4_EventsSorted ==
    \A t \in DOMAIN transfers :
        \A i, j \in 1..Len(transfers[t].events) :
            i < j => NotAfter(transfers[t].events[i], transfers[t].events[j])

(***************************************************************************)
(* C5: the cache is never stale: in every state, every transfer with       *)
(* accepted events has a cached Transfer whose current_status, is_terminal,*)
(* last_updated, event_count, warnings and events are those that           *)
(* computeTransferState yields on the transfer's complete stored log.      *)
(***************************************************************************)
C5_CacheNeverStale ==
    /\ DOMAIN transfers = DOMAIN events
    /\ \A t \in DOMAIN events :
          /\ Len(events[t]) > 0
          /\ LoadBearing(transfers[t])
               = LoadBearing(computeTransferState(t, events[t], getRejectedDuplicates(t)))

\* A transfer whose second event arrived with the older timestamp.
C5_Witness ==
    \E t \in DOMAIN transfers :
        /\ Len(events[t]) = 2
        /\ getTime(events[t][2].timestamp) < getTime(events[t][1].timestamp)
        /\ transfers[t].current_status = events[t][1].status
        /\ events[t][1].status # events[t][2].status

\* Two handlers that were both answered, for requests with the same key that
\* was new when each request was received.
SameNewKey(h1, h2) ==
    /\ h1 # h2
    /\ handlers[h1].pc = "responded" /\ handlers[h2].pc = "responded"
    /\ handlers[h1].isNew /\ handlers[h2].isNew
    /\ handlers[h1].body[1].transfer_id = handlers[h2].body[1].transfer_id
    /\ handlers[h1].body[1].event_id = handlers[h2].body[1].event_id

\* How many entries of the transfer's log carry the event_id.
TimesInLog(transfer_id, event_id) ==
    Cardinality({i \in 1..Len(logOf(transfer_id)) : logOf(transfer_id)[i].event_id = event_id})

(***************************************************************************)
(* C2: when two handlers of POST /events are in flight with the same new   *)
(* event_id for the same transfer_id, exactly one of them is answered 201  *)
(* and the other 200; the event is in the log once; the accepting handler  *)
(* adds one event and one to the version, the other adds nothing.          *)
(***************************************************************************)
C2_ConcurrentSameKeyAcceptedOnce ==
    /\ [](\A h1, h2 \in Handlers :
            SameNewKey(h1, h2) =>
                /\ {handlers[h1].status, handlers[h2].status} = {200, 201}
                /\ TimesInLog(handlers[h1].body[1].transfer_id,
                              handlers[h1].body[1].event_id) = 1)
    /\ [][\A h \in Handlers :
            postEvents(h) =>
                LET t == handlers[h].body[1].transfer_id
                IN  IF handlers'[h].status = 201
                    THEN /\ version' = version + 1
                         /\ Len(events'[t]) = Len(logOf(t)) + 1
                         /\ transfers'[t].event_count = Len(logOf(t)) + 1
                    ELSE /\ handlers'[h].status \in {200, 422}
                         /\ version' = version
                         /\ events' = events]_vars

\* Both requests were received before either handler ran, and both were answered.
C2_Witness ==
    \E h1, h2 \in Handlers :
        /\ SameNewKey(h1, h2)
        /\ handlers[h1].status = 201
        /\ handlers[h2].status = 200
        /\ handlers[h1].body[1] # handlers[h2].body[1]

(***************************************************************************)
(* C6: the version starts at 0, grows by exactly 1 on every accepted       *)
(* addEvent and every recomputeTransfer of an existing transfer, stays the *)
(* same on a duplicate addEvent, and never decreases under addEvent,       *)
(* recomputeTransfer, the reads and getAffectedTransferIds.                *)
(***************************************************************************)
C6_VersionSteps ==
    /\ version = 0
    /\ [][/\ ret'.op = "addEvent" =>
               version' = version + (IF InLog(ret'.transfer_id, ret'.event_id) THEN 0 ELSE 1)
          /\ ret'.op = "recomputeTransfer" =>
               version' = version + (IF ret'.transfer_id \in DOMAIN transfers THEN 1 ELSE 0)
          /\ version' >= version]_vars

\* An event, a repeat of it and a recompute have happened, and reads in between.
C6_Witness ==
    /\ version = 2
    /\ TotalEvents = 1
    /\ rejectedDuplicates # EmptyMap
    /\ ret.op = "getVersion"

(***************************************************************************)
(* C7: getAffectedTransferIds returns the accumulated ids and empties the  *)
(* set, so a call right after it returns nothing; it changes neither the   *)
(* version, nor the logs, nor the cached Transfers.                        *)
(***************************************************************************)
C7_DrainIsDestructive ==
    /\ [](ret.op = "getAffectedTransferIds" => affectedTransferIds = <<>>)
    /\ [][ret'.op = "getAffectedTransferIds" =>
            /\ ret'.ids = affectedTransferIds
            /\ (ret.op = "getAffectedTransferIds" => ret'.ids = <<>>)
            /\ UNCHANGED <<version, events, transfers>>]_vars

\* A drain that returned ids.
C7_Witness ==
    /\ ret.op = "getAffectedTransferIds"
    /\ ret.ids # <<>>
    /\ version > 0

\* No element occurs twice in the sequence.
NoRepeats(seq) == Len(seq) = Cardinality(Range(seq))

(***************************************************************************)
(* C8: the affected set holds exactly the transfer_ids with an accepted    *)
(* addEvent or a successful recomputeTransfer since the last drain: every  *)
(* such call adds its id, a duplicate addEvent and a recompute of an       *)
(* unknown id add nothing, and the drain returns each id once.             *)
(***************************************************************************)
C8_AffectedIsExactlyTheMutated ==
    [][/\ ret'.op = "addEvent" =>
            Range(affectedTransferIds')
              = Range(affectedTransferIds)
                \cup (IF InLog(ret'.transfer_id, ret'.event_id) THEN {} ELSE {ret'.transfer_id})
       /\ ret'.op = "recomputeTransfer" =>
            Range(affectedTransferIds')
              = Range(affectedTransferIds)
                \cup (IF ret'.transfer_id \in DOMAIN transfers THEN {ret'.transfer_id} ELSE {})
       /\ ret'.op = "getAffectedTransferIds" =>
            /\ Range(ret'.ids) = Range(affectedTransferIds)
            /\ NoRepeats(ret'.ids)
            /\ affectedTransferIds' = <<>>]_vars

\* A drain that returned two ids, after three calls that changed a transfer.
C8_Witness ==
    /\ ret.op = "getAffectedTransferIds"
    /\ Len(ret.ids) = 2
    /\ version = 3

(***************************************************************************)
(* C9: the idempotency key is scoped per transfer: an event_id that is in  *)
(* the log of one transfer is accepted when first submitted for another    *)
(* transfer, and the two transfers count their events independently.       *)
(***************************************************************************)
C9_KeyScopedPerTransfer ==
    [][\A other \in TransferIds \ {ret'.transfer_id} :
         (/\ ret'.op = "addEvent"
          /\ InLog(other, ret'.event_id)
          /\ ~InLog(ret'.transfer_id, ret'.event_id)) =>
             /\ ~ret'.isDuplicate
             /\ transfers'[ret'.transfer_id].event_count = Len(logOf(ret'.transfer_id)) + 1
             /\ transfers'[other] = transfers[other]
             /\ events'[other] = events[other]]_vars

\* The same event_id is in the logs of both transfers.
C9_Witness ==
    /\ InLog("tr_a", "evt_1")
    /\ InLog("tr_b", "evt_1")
    /\ transfers["tr_a"].event_count = 1
    /\ transfers["tr_b"].event_count = 1

(***************************************************************************)
(* C10: anomalies never gate ingestion: addEvent with an event_id that is  *)
(* not in the log of its transfer is accepted and appends the event to the *)
(* log, whatever the transfer's status, terminal flag or warnings.         *)
(***************************************************************************)
C10_AnomaliesNeverGate ==
    [][(ret'.op = "addEvent" /\ ~InLog(ret'.transfer_id, ret'.event_id)) =>
          LET old == logOf(ret'.transfer_id)
              log == events'[ret'.transfer_id]
          IN  /\ ~ret'.isDuplicate
              /\ ret'.found
              /\ Len(log) = Len(old) + 1
              /\ SubSeq(log, 1, Len(old)) = old
              /\ log[Len(log)].event_id = ret'.event_id
              /\ transfers'[ret'.transfer_id].event_count = Len(log)]_vars

\* An event was accepted for a transfer that was terminal when it arrived,
\* and it is flagged.
C10_Witness ==
    \E t \in DOMAIN transfers :
        /\ Len(events[t]) = 2
        /\ events[t][1].status \in TERMINAL_STATUSES
        /\ getTime(events[t][2].timestamp) > getTime(events[t][1].timestamp)
        /\ \E i \in 1..Len(transfers[t].warnings) :
              /\ transfers[t].warnings[i].type = "event_after_terminal"
              /\ transfers[t].warnings[i].event_ids = <<events[t][2].event_id>>

(***************************************************************************)
(* C11: in every cached Transfer, is_terminal is true if and only if       *)
(* current_status is settled or failed.                                    *)
(***************************************************************************)
C11_TerminalIffSettledOrFailed ==
    \A t \in DOMAIN transfers :
        transfers[t].is_terminal <=> transfers[t].current_status \in {"settled", "failed"}

\* One transfer is settled and one is failed, both terminal.
C11_Witness ==
    /\ DOMAIN transfers = {"tr_a", "tr_b"}
    /\ transfers["tr_b"].current_status = "settled" /\ transfers["tr_b"].is_terminal
    /\ transfers["tr_a"].current_status = "failed" /\ transfers["tr_a"].is_terminal

(***************************************************************************)
(* C12: recomputeTransfer of an existing transfer derives the same state   *)
(* again: the Transfer it returns and stores has the current_status,       *)
(* is_terminal and event_count of the cached Transfer right before the     *)
(* call, and the event logs are as they were.                              *)
(***************************************************************************)
C12_RecomputeIsIdempotent ==
    [][(ret'.op = "recomputeTransfer" /\ ret'.transfer_id \in DOMAIN transfers) =>
          LET before == transfers[ret'.transfer_id]
              after == transfers'[ret'.transfer_id]
          IN  /\ ret'.found
              /\ after.current_status = before.current_status
              /\ after.is_terminal = before.is_terminal
              /\ after.event_count = before.event_count
              /\ events' = events]_vars

\* A recompute of a transfer whose two events arrived newest first.
C12_Witness ==
    /\ ret.op = "recomputeTransfer"
    /\ ret.found
    /\ Len(events[ret.transfer_id]) = 2
    /\ getTime(events[ret.transfer_id][2].timestamp) < getTime(events[ret.transfer_id][1].timestamp)
    /\ events[ret.transfer_id][1].status # events[ret.transfer_id][2].status

(***************************************************************************)
(* C13: getTransfer and recomputeTransfer on a transfer_id with no accepted*)
(* event return undefined, which the routes answer with 404, and leave the *)
(* store as it was: no Transfer is created, the version is not advanced    *)
(* and the id is not added to the affected set.                            *)
(***************************************************************************)
C13_UnknownIdIsNotFound ==
    [][(ret'.op \in {"getTransfer", "recomputeTransfer"} /\ logOf(ret'.transfer_id) = <<>>) =>
          /\ ~ret'.found
          /\ UNCHANGED storeVars
          /\ ret'.transfer_id \notin DOMAIN transfers'
          /\ \A h \in Handlers : handlers'[h] # handlers[h] => handlers'[h].status = 404]_vars

\* A recompute was asked for a transfer without events and answered 404, while
\* the store holds events and a version.
C13_Witness ==
    /\ version > 0
    /\ handlers[SyncSlot].pc = "responded"
    /\ handlers[SyncSlot].body[1] = RouteRequest("POST /transfers/:id/recompute", "tr_b")
    /\ handlers[SyncSlot].status = 404
    /\ "tr_b" \notin DOMAIN transfers
    /\ ret.op = "recomputeTransfer" /\ ~ret.found

(***************************************************************************)
(* C14: reads never mutate: getTransfer, listTransfers and getVersion leave*)
(* the event logs, the cached Transfers, the version and the affected set  *)
(* as they were, so a cached Transfer is only ever replaced by addEvent or *)
(* recomputeTransfer.                                                      *)
(***************************************************************************)
C14_ReadsNeverMutate ==
    [][/\ ret'.op \in {"getTransfer", "listTransfers", "getVersion"} =>
            UNCHANGED <<events, transfers, version, affectedTransferIds>>
       /\ transfers' # transfers => ret'.op \in {"addEvent", "recomputeTransfer"}]_vars

\* A Transfer was read while the version is 2 and ids wait to be drained.
C14_Witness ==
    /\ ret.op = "getTransfer"
    /\ ret.found
    /\ version = 2
    /\ affectedTransferIds # <<>>

\* C15 as stated: every field of the filter that is present constrains the
\* result, an empty status string included.
C15_ListReturnsMatching ==
    [][ret'.op = "listTransfers" =>
          LET f == ret'.filters
              Matches(t) == /\ f.status # Undefined => t.current_status = f.status[1]
                            /\ f.has_warnings # Undefined => t.has_warnings = f.has_warnings[1]
              matching == {t \in DOMAIN transfers : Matches(transfers[t])}
          IN  /\ Range(ret'.transfers) = {transfers[t] : t \in matching}
              /\ Len(ret'.transfers) = Cardinality(matching)
              /\ ret'.total = Len(ret'.transfers)]_vars

(***************************************************************************)
(* C15 (amended): listTransfers(filter) returns exactly the cached         *)
(* Transfers that satisfy every filter field that is given, where a status *)
(* is given when it is present and not the empty string and has_warnings   *)
(* when it is present; all cached Transfers when none is given; and total  *)
(* is the number of returned items.                                        *)
(***************************************************************************)
C15_ListReturnsMatchingNonEmpty ==
    [][ret'.op = "listTransfers" =>
          LET f == ret'.filters
              Matches(t) == /\ (f.status # Undefined /\ f.status[1] # "") =>
                                  t.current_status = f.status[1]
                            /\ f.has_warnings # Undefined => t.has_warnings = f.has_warnings[1]
              matching == {t \in DOMAIN transfers : Matches(transfers[t])}
          IN  /\ Range(ret'.transfers) = {transfers[t] : t \in matching}
              /\ Len(ret'.transfers) = Cardinality(matching)
              /\ ret'.total = Len(ret'.transfers)]_vars

\* Both filters were given: of two cached Transfers one was returned.
C15_Witness ==
    /\ ret.op = "listTransfers"
    /\ ret.filters.status = Some("settled")
    /\ ret.filters.has_warnings = Some(TRUE)
    /\ Cardinality(DOMAIN transfers) = 2
    /\ ret.total = 1

\* The positions of the warnings of a type in the warnings of a Transfer.
WarningsOfType(t, type) == {i \in 1..Len(t.warnings) : t.warnings[i].type = type}

\* The event_ids of the events of a log that report a status.
IdsWithStatus(log, status) == {log[i].event_id : i \in {k \in 1..Len(log) : log[k].status = status}}

\* The event_ids of the events of a log that are timestamped strictly after
\* its first terminal event in the order (timestamp, event_id).
IdsAfterFirstTerminal(log) ==
    LET terminal == {i \in 1..Len(log) : log[i].status \in {"settled", "failed"}}
        first == CHOOSE i \in terminal : \A j \in terminal : NotAfter(log[i], log[j])
    IN  IF terminal = {} THEN {}
        ELSE {log[i].event_id :
                i \in {k \in 1..Len(log) : getTime(log[k].timestamp) > getTime(log[first].timestamp)}}

(***************************************************************************)
(* C16: a Transfer carries an event_after_terminal warning if and only if  *)
(* some event of its log is timestamped strictly later than the first      *)
(* terminal event in (timestamp, event_id) order; the warning lists exactly*)
(* those events, each once, and never an event at the terminal event's own *)
(* instant; the order of arrival plays no part.                            *)
(***************************************************************************)
C16_EventAfterTerminal ==
    \A t \in DOMAIN transfers :
        LET later == IdsAfterFirstTerminal(events[t])
            W == WarningsOfType(transfers[t], "event_after_terminal")
        IN  /\ W # {} <=> later # {}
            /\ Cardinality(W) <= 1
            /\ \A i \in W : /\ Range(transfers[t].warnings[i].event_ids) = later
                             /\ NoRepeats(transfers[t].warnings[i].event_ids)

\* The only terminal event arrived last; of the two events that arrived before
\* it, one has its timestamp and one is later: the warning lists one event.
C16_Witness ==
    \E t \in DOMAIN transfers :
        LET log == events[t]
        IN  /\ Len(log) = 3
            /\ log[3].status \in {"settled", "failed"}
            /\ log[1].status \notin {"settled", "failed"}
            /\ log[2].status \notin {"settled", "failed"}
            /\ getTime(log[1].timestamp) = getTime(log[3].timestamp)
            /\ getTime(log[2].timestamp) > getTime(log[3].timestamp)
            /\ \E i \in WarningsOfType(transfers[t], "event_after_terminal") :
                  transfers[t].warnings[i].event_ids = <<log[2].event_id>>

(***************************************************************************)
(* C17: a Transfer carries a conflicting_terminals warning if and only if  *)
(* its log holds a settled event and a failed event, and the warning lists *)
(* exactly the event_ids of all settled and all failed events.             *)
(***************************************************************************)
C17_ConflictingTerminals ==
    \A t \in DOMAIN transfers :
        LET settled == IdsWithStatus(events[t], "settled")
            failed == IdsWithStatus(events[t], "failed")
            W == WarningsOfType(transfers[t], "conflicting_terminals")
        IN  /\ W # {} <=> (settled # {} /\ failed # {})
            /\ Cardinality(W) <= 1
            /\ \A i \in W : /\ Range(transfers[t].warnings[i].event_ids) = settled \cup failed
                             /\ NoRepeats(transfers[t].warnings[i].event_ids)

\* Two settled events and a failed one: the warning lists the three.
C17_Witness ==
    \E t \in DOMAIN transfers :
        /\ Cardinality(IdsWithStatus(events[t], "settled")) = 2
        /\ Cardinality(IdsWithStatus(events[t], "failed")) = 1
        /\ \E i \in WarningsOfType(transfers[t], "conflicting_terminals") :
              Len(transfers[t].warnings[i].event_ids) = 3

(***************************************************************************)
(* C18: a Transfer carries a missing_initiated warning if and only if none *)
(* of its accepted events has status initiated, and the warning lists the  *)
(* event_ids of all its events; so the warning is gone once an initiated   *)
(* event is accepted, whatever its timestamp or place in the arrivals.     *)
(***************************************************************************)
C18_MissingInitiated ==
    \A t \in DOMAIN transfers :
        LET W == WarningsOfType(transfers[t], "missing_initiated")
        IN  /\ W # {} <=> IdsWithStatus(events[t], "initiated") = {}
            /\ Cardinality(W) <= 1
            /\ \A i \in W : /\ Range(transfers[t].warnings[i].event_ids)
                                  = Range(EventIdsOf(events[t]))
                             /\ NoRepeats(transfers[t].warnings[i].event_ids)

\* Three events, none of them initiated: the warning lists the three.
C18_Witness ==
    \E t \in DOMAIN transfers :
        /\ Len(events[t]) = 3
        /\ \E i \in WarningsOfType(transfers[t], "missing_initiated") :
              Len(transfers[t].warnings[i].event_ids) = 3

(***************************************************************************)
(* C19: for every status, a Transfer carries a duplicate_status warning for*)
(* that status if and only if more than one event_id of its log reports    *)
(* the status, and the warning lists every event_id of that group; there   *)
(* is one such warning per status with several events.                     *)
(***************************************************************************)
C19_DuplicateStatus ==
    \A t \in DOMAIN transfers :
        \A status \in VALID_STATUSES :
            LET group == IdsWithStatus(events[t], status)
                W == {i \in WarningsOfType(transfers[t], "duplicate_status") :
                        transfers[t].warnings[i].message
                          = "Multiple events report status \"" \o status \o "\""}
            IN  /\ W # {} <=> Cardinality(group) > 1
                /\ Cardinality(W) <= 1
                /\ \A i \in W : /\ Range(transfers[t].warnings[i].event_ids) = group
                                 /\ NoRepeats(transfers[t].warnings[i].event_ids)

\* Two processing and two settled events: one warning for each status.
C19_Witness ==
    \E t \in DOMAIN transfers :
        /\ Cardinality(IdsWithStatus(events[t], "processing")) = 2
        /\ Cardinality(IdsWithStatus(events[t], "settled")) = 2
        /\ Cardinality(WarningsOfType(transfers[t], "duplicate_status")) = 2

\* The log is one initiated, one processing and one terminal event, with
\* strictly ascending timestamps in that order.
IsCleanHistory(log) ==
    /\ Len(log) = 3
    /\ \E i, j, k \in 1..3 :
          /\ log[i].status = "initiated"
          /\ log[j].status = "processing"
          /\ log[k].status \in {"settled", "failed"}
          /\ getTime(log[i].timestamp) < getTime(log[j].timestamp)
          /\ getTime(log[j].timestamp) < getTime(log[k].timestamp)

(***************************************************************************)
(* C20: a clean history has no warning: a transfer whose accepted events   *)
(* are one initiated, one processing and one terminal event with strictly  *)
(* ascending timestamps in that order has warnings = [] and has_warnings = *)
(* false, in whatever order the events were submitted.                     *)
(***************************************************************************)
C20_CleanHistoryHasNoWarning ==
    \A t \in DOMAIN transfers :
        IsCleanHistory(events[t]) =>
            /\ transfers[t].warnings = <<>>
            /\ transfers[t].has_warnings = FALSE

\* A clean history that arrived newest first.
C20_Witness ==
    \E t \in DOMAIN transfers :
        /\ IsCleanHistory(events[t])
        /\ events[t][1].status \in {"settled", "failed"}
        /\ events[t][3].status = "initiated"
        /\ transfers[t].warnings = <<>>


\* The conditions of the four rules on a log, each on its own: the types of
\* warning the log calls for.
TypesCalledFor(log) ==
    (IF IdsAfterFirstTerminal(log) # {} THEN {"event_after_terminal"} ELSE {})
    \cup (IF IdsWithStatus(log, "settled") # {} /\ IdsWithStatus(log, "failed") # {}
          THEN {"conflicting_terminals"} ELSE {})
    \cup (IF IdsWithStatus(log, "initiated") = {} THEN {"missing_initiated"} ELSE {})
    \cup (IF \E s \in VALID_STATUSES : Cardinality(IdsWithStatus(log, s)) > 1
          THEN {"duplicate_status"} ELSE {})

(***************************************************************************)
(* C21: the four anomaly rules are additive and never suppress one another:*)
(* the warnings of a Transfer are those that each rule yields on its sorted*)
(* history, so a history that meets the conditions of several rules carries*)
(* a warning of each of them, and has_warnings is true if and only if the  *)
(* list of warnings is not empty.                                          *)
(***************************************************************************)
C21_RulesAreAdditive ==
    \A t \in DOMAIN transfers :
        LET w == transfers[t].warnings
            sorted == transfers[t].events
        IN  /\ {w[i].type : i \in 1..Len(w)} = TypesCalledFor(events[t])
            /\ Range(w) = Range(checkEventAfterTerminal(sorted))
                          \cup Range(checkConflictingTerminals(sorted))
                          \cup Range(checkMissingInitiated(sorted))
                          \cup Range(checkDuplicateStatus(sorted))
            /\ Len(w) = Len(checkEventAfterTerminal(sorted)) + Len(checkConflictingTerminals(sorted))
                        + Len(checkMissingInitiated(sorted)) + Len(checkDuplicateStatus(sorted))
            /\ transfers[t].has_warnings <=> Len(w) > 0

\* A history that meets the conditions of all four rules at once: a settled
\* event and two later failed events, and no initiated event.
C21_Witness ==
    \E t \in DOMAIN transfers :
        /\ TypesCalledFor(events[t]) = {"event_after_terminal", "conflicting_terminals",
                                        "missing_initiated", "duplicate_status"}
        /\ Len(transfers[t].warnings) = 4
        /\ transfers[t].has_warnings


(***************************************************************************)
(* C22: the event log is append-only and accepted events are immutable:    *)
(* under addEvent, recomputeTransfer and the reads, the log of every       *)
(* transfer in the next state has its log in this state as a prefix (so    *)
(* the log of every earlier state is a prefix of that of every later one), *)
(* the events listed in a cached Transfer stay listed as they are, and     *)
(* addEvent with an event_id that was accepted before leaves the logs as   *)
(* they are, also when it comes with another status or timestamp: the      *)
(* payload accepted first is kept.                                         *)
(***************************************************************************)
C22_LogIsAppendOnly ==
    [][/\ \A t \in DOMAIN events :
            /\ t \in DOMAIN events'
            /\ Len(events'[t]) >= Len(events[t])
            /\ SubSeq(events'[t], 1, Len(events[t])) = events[t]
       /\ \A t \in DOMAIN transfers :
            /\ t \in DOMAIN transfers'
            /\ Range(transfers[t].events) \subseteq Range(transfers'[t].events)
       /\ (ret'.op = "addEvent" /\ InLog(ret'.transfer_id, ret'.event_id)) =>
            events' = events]_vars

\* evt_1 is stored as settled at 12:03 and was sent again (as initiated at
\* 12:00, the payload of the repeats); the Transfer is still settled.
C22_Witness ==
    /\ ret.op = "addEvent"
    /\ ret.isDuplicate
    /\ ret.event_id = "evt_1"
    /\ ResubmitPayloads = PayloadsOf({"tr_a"}, {"evt_1"}, {"initiated"}, {"2024-01-05T12:00:00Z"})
    /\ \E i \in 1..Len(events["tr_a"]) :
          /\ events["tr_a"][i].event_id = "evt_1"
          /\ events["tr_a"][i].status = "settled"
          /\ events["tr_a"][i].timestamp = "2024-01-05T12:03:00Z"
    /\ transfers["tr_a"].current_status = "settled"
    /\ transfers["tr_a"].last_updated = "2024-01-05T12:03:00Z"


\* The filter of a call of listTransfers without filter.
NoFilter == [status |-> Undefined, has_warnings |-> Undefined]

(***************************************************************************)
(* C23: a Transfer exists for a transfer_id if and only if at least one    *)
(* event was accepted for it: getTransfer returns a Transfer exactly for   *)
(* the ids with a non-empty log, listTransfers without filter returns      *)
(* exactly the Transfers of those ids, and addEvent, recomputeTransfer and *)
(* the reads never remove a Transfer that is cached.                       *)
(***************************************************************************)
C23_TransferExistsIffAccepted ==
    /\ [](\A t \in RequestedIds : (getTransfer(t) # Undefined) <=> logOf(t) # <<>>)
    /\ [][/\ ret'.op = "getTransfer" => (ret'.found <=> logOf(ret'.transfer_id) # <<>>)
          /\ (ret'.op = "listTransfers" /\ ret'.filters = NoFilter) =>
                /\ {tr.transfer_id : tr \in Range(ret'.transfers)}
                     = {t \in RequestedIds : logOf(t) # <<>>}
                /\ \A tr \in Range(ret'.transfers) : tr = transfers[tr.transfer_id]
          /\ DOMAIN transfers \subseteq DOMAIN transfers']_vars

\* Both transfers were listed by a call without filter, after one of them was
\* replaced by a recompute.
C23_Witness ==
    /\ ret.op = "listTransfers"
    /\ ret.filters = NoFilter
    /\ ret.total = 2
    /\ version = 3
    /\ getTransfer("tr_unknown") = Undefined


(***************************************************************************)
(* C24: POST /events answers 422 exactly when the payload fails validation,*)
(* 201 exactly when the payload is valid and its event_id is not yet in    *)
(* the log of its transfer_id (the event is then accepted), and 200        *)
(* exactly when the payload is valid and its event_id was already seen for *)
(* that transfer_id; a payload that fails validation does not reach the    *)
(* store: logs, cached Transfers, version and affected set stay as they    *)
(* were.                                                                   *)
(***************************************************************************)
C24_StatusCodes ==
    [][\A h \in Handlers :
         (handlers[h].pc = "received" /\ handlers'[h].pc = "responded") =>
            LET body == handlers[h].body[1]
                status == handlers'[h].status
            IN  /\ status \in {200, 201, 422}
                /\ status = 422 <=> ~safeParseSuccess(body)
                /\ status = 201 <=>
                     (safeParseSuccess(body) /\ ~InLog(body.transfer_id, body.event_id))
                /\ status = 200 <=>
                     (safeParseSuccess(body) /\ isSeen(body.transfer_id, body.event_id))
                /\ status = 201 =>
                     /\ events'[body.transfer_id] = Append(logOf(body.transfer_id),
                                                           eventWithMetadata(body))
                     /\ version' = version + 1
                /\ status = 200 => UNCHANGED <<events, version, affectedTransferIds>>
                /\ status = 422 => UNCHANGED storeVars]_vars

\* A request with a status that is no status was answered 422 and a repeat of
\* the one accepted event was answered 200.
C24_Witness ==
    \E h1, h2 \in Handlers :
        /\ handlers[h1].pc = "responded" /\ handlers[h1].status = 422
        /\ handlers[h1].body[1].status = "cancelled"
        /\ handlers[h2].pc = "responded" /\ handlers[h2].status = 200
        /\ InLog(handlers[h2].body[1].transfer_id, handlers[h2].body[1].event_id)
        /\ ~InLog(handlers[h1].body[1].transfer_id, handlers[h1].body[1].event_id)
        /\ TotalEvents = 1
        /\ version = 1


(***************************************************************************)
(* C25: for every client polling GET /transfers/version, with any number   *)
(* of clients polling: whenever a response shows a version greater than    *)
(* the one the client saw at its previous poll, the affected_transfer_ids  *)
(* of that response contain every transfer_id that an accepted event or a  *)
(* recompute changed since that client's previous poll.                    *)
(***************************************************************************)
C25_PollSeesEveryMutation ==
    [][\A c \in Clients :
         (/\ getTransfersVersion(c)
          /\ handlers[c].pc = "polled"
          /\ versionResponse.version > handlers[c].knownVersion) =>
             handlers[c].mutated \subseteq Range(versionResponse.affected_transfer_ids)]_vars


(***************************************************************************)
(* C26: addEvent cannot fail on well-typed input: in every reachable state *)
(* the last addEvent completed, returning a Transfer as accepted or as     *)
(* duplicate, and never raised; the 'No events found' error of             *)
(* computeTransferState is not reached through addEvent or                 *)
(* recomputeTransfer, because every log they derive from is non-empty; no  *)
(* error is ever cached in place of a Transfer.                            *)
(***************************************************************************)
C26_AddEventNeverRaises ==
    /\ ret.op \in {"addEvent", "recomputeTransfer"} => ~ret.threw
    /\ ret.op = "addEvent" => ret.found
    /\ \A t \in DOMAIN events : Len(events[t]) > 0
    /\ \A t \in DOMAIN transfers : ~IsError(transfers[t])
    /\ \A t \in DOMAIN events :
          ~IsError(computeTransferState(t, events[t], getRejectedDuplicates(t)))

\* The first event of a second transfer was accepted without an error.
C26_Witness ==
    /\ ret.op = "addEvent"
    /\ ~ret.isDuplicate
    /\ ret.found
    /\ ~ret.threw
    /\ Len(events[ret.transfer_id]) = 1
    /\ Cardinality(DOMAIN events) = 2


\* The positions of the events of a log that carry its maximal timestamp.
AtMaximalTimestamp(log) ==
    {i \in 1..Len(log) : \A j \in 1..Len(log) : getTime(log[j].timestamp) <= getTime(log[i].timestamp)}

(***************************************************************************)
(* C27: when two (or more) events of a transfer share the maximal          *)
(* timestamp, the one of them with the greater event_id determines         *)
(* current_status, also when it is non-terminal and another one is         *)
(* terminal: is_terminal is then false although the history holds a        *)
(* terminal event at that timestamp.                                       *)
(***************************************************************************)
C27_TieGoesToGreaterEventId ==
    \A t \in DOMAIN transfers :
        LET log == events[t]
            top == AtMaximalTimestamp(log)
        IN  Cardinality(top) >= 2 =>
               \A i \in top :
                  (\A j \in top : CodeUnitRank(log[j].event_id) <= CodeUnitRank(log[i].event_id)) =>
                      /\ transfers[t].current_status = log[i].status
                      /\ transfers[t].is_terminal = (log[i].status \in {"settled", "failed"})


(***************************************************************************)
(* C28: in every cached Transfer, last_updated is the timestamp of the     *)
(* last element of its sorted events, which is the maximum timestamp over  *)
(* all accepted events of the transfer; accepting an event with a          *)
(* timestamp older than last_updated leaves last_updated as it was.        *)
(***************************************************************************)
C28_LastUpdatedIsMaxTimestamp ==
    /\ [](\A t \in DOMAIN transfers :
            LET tr == transfers[t]
            IN  /\ tr.last_updated = tr.events[Len(tr.events)].timestamp
                /\ \E i \in 1..Len(events[t]) : events[t][i].timestamp = tr.last_updated
                /\ \A i \in 1..Len(events[t]) :
                      getTime(events[t][i].timestamp) <= getTime(tr.last_updated))
    /\ [][(ret'.op = "addEvent" /\ ~ret'.isDuplicate /\ ret'.transfer_id \in DOMAIN transfers) =>
            LET t == ret'.transfer_id
                accepted == events'[t][Len(events'[t])]
            IN  getTime(accepted.timestamp) < getTime(transfers[t].last_updated) =>
                   transfers'[t].last_updated = transfers[t].last_updated]_vars

\* An event older than the one in the log was accepted: last_updated is still
\* the timestamp of the event that arrived first.
C28_Witness ==
    /\ ret.op = "addEvent"
    /\ ~ret.isDuplicate
    /\ Len(events[ret.transfer_id]) = 2
    /\ events[ret.transfer_id][2].event_id = ret.event_id
    /\ getTime(events[ret.transfer_id][2].timestamp) < getTime(events[ret.transfer_id][1].timestamp)
    /\ transfers[ret.transfer_id].last_updated = events[ret.transfer_id][1].timestamp
    /\ rejectedDuplicates = EmptyMap
    /\ version = 2


(***************************************************************************)
(* C29: arrival_order is a per-transfer counter given at acceptance: the   *)
(* k-th accepted event of a transfer is at position k of the transfer's    *)
(* log with arrival_order = k, starting at 1, whatever its timestamp;      *)
(* duplicates take no number (the counter of a transfer is the length of   *)
(* its log); so the arrival_order values of the events of a Transfer are   *)
(* exactly 1..event_count, without gaps or repeats.                        *)
(***************************************************************************)
C29_ArrivalOrderIsPosition ==
    \A t \in DOMAIN events :
        /\ \A k \in 1..Len(events[t]) : events[t][k].arrival_order = k
        /\ arrivalOrderCounters[t] = Len(events[t])
        /\ Len(transfers[t].events) = transfers[t].event_count
        /\ {transfers[t].events[i].arrival_order : i \in 1..Len(transfers[t].events)}
             = 1..transfers[t].event_count

\* The second event of a transfer was accepted after a repeat of the first had
\* been rejected; it is older than the first and has arrival_order 2.
C29_Witness ==
    /\ Len(logOf("tr_a")) = 2
    /\ getRejectedDuplicates("tr_a") # <<>>
    /\ transfers["tr_a"].rejected_duplicates = <<>>
    /\ getTime(events["tr_a"][2].timestamp) < getTime(events["tr_a"][1].timestamp)
    /\ events["tr_a"][2].arrival_order = 2
    /\ transfers["tr_a"].events[1].arrival_order = 2


(***************************************************************************)
(* C30: the rejected_duplicates of a cached Transfer is exactly the list of*)
(* the event_ids that were resubmitted at least once for the transfer: it  *)
(* is empty when the Transfer is created, a repeat adds its event_id if it *)
(* is not listed yet and changes neither the version nor the affected set, *)
(* a later accepted event or a recompute leaves the list as it is; every   *)
(* listed id appears once and is an accepted event_id of the transfer.     *)
(***************************************************************************)
C30_RejectedDuplicatesAreKept ==
    /\ [](\A t \in DOMAIN transfers :
            /\ NoRepeats(transfers[t].rejected_duplicates)
            /\ \A id \in Range(transfers[t].rejected_duplicates) : InLog(t, id))
    /\ [][/\ (ret'.op = "addEvent" /\ ret'.isDuplicate) =>
                /\ Range(transfers'[ret'.transfer_id].rejected_duplicates)
                     = Range(transfers[ret'.transfer_id].rejected_duplicates) \cup {ret'.event_id}
                /\ version' = version
                /\ affectedTransferIds' = affectedTransferIds
          /\ (ret'.op = "addEvent" /\ ~ret'.isDuplicate) =>
                transfers'[ret'.transfer_id].rejected_duplicates
                  = IF ret'.transfer_id \in DOMAIN transfers
                    THEN transfers[ret'.transfer_id].rejected_duplicates
                    ELSE <<>>
          /\ (ret'.op = "recomputeTransfer" /\ ret'.found) =>
                transfers'[ret'.transfer_id].rejected_duplicates
                  = transfers[ret'.transfer_id].rejected_duplicates]_vars


(***************************************************************************)
(* C31: the UI refreshes on every change: for every two successive runs of *)
(* pollVersion of a page, also when the earlier one was answered version 0 *)
(* and when another client polls the endpoint, if the later response has a *)
(* different version then the view shown is reloaded: the list view (at    *)
(* once or by the timeout it sets), or the detail view when the transfer   *)
(* it displays was changed in between.                                     *)
(***************************************************************************)
C31_UiRefreshesOnEveryChange ==
    [][\A p \in Pages :
         (/\ pollVersion(p)
          /\ handlers[p].pc = "polled"
          /\ versionResponse.version # handlers[p].knownVersion) =>
             /\ handlers[p].currentView = "list" =>
                   (handlers'[p].loaded = "list" \/ handlers'[p].timer)
             /\ (/\ handlers[p].currentView = "detail"
                 /\ handlers[p].currentTransferId \in handlers[p].mutated) =>
                   handlers'[p].loaded = "detail"]_vars


(***************************************************************************)
(* C32: each of the ten fixture scenarios, sent through addEvent in its    *)
(* stated arrival order, yields a Transfer whose current_status,           *)
(* is_terminal and event_count are the expected values of the scenario and *)
(* whose set of warning types is exactly its expected warning_types.       *)
(***************************************************************************)
C32_FixturesYieldExpected ==
    handlers.sent = Len(handlers.scenario.events) =>
        LET expected == handlers.scenario.expected
            t == handlers.scenario.events[1].transfer_id
            transfer == transfers[t]
        IN  /\ DOMAIN transfers = {t}
            /\ transfer.current_status = expected.current_status
            /\ transfer.is_terminal = expected.is_terminal
            /\ transfer.event_count = expected.event_count
            /\ {transfer.warnings[i].type : i \in 1..Len(transfer.warnings)}
                 = expected.warning_types

\* The scenario with three anomalies was sent completely.
C32_Witness ==
    /\ handlers.scenario.name = "Multiple anomalies"
    /\ handlers.sent = 3
    /\ Len(transfers["tr_multi_warn"].warnings) = 3
    /\ transfers["tr_multi_warn"].current_status = "failed"


(***************************************************************************)
(* C33: clear() returns the store to its initial state from any reachable  *)
(* state: version 0, empty affected set, no event logs, no cached          *)
(* Transfers, no seen event_ids and no rejected duplicates; so an event_id *)
(* that was seen before the clear is accepted again as new, and its        *)
(* arrival_order is 1.                                                     *)
(***************************************************************************)
C33_ClearResets ==
    /\ [](ret.op = "clear" =>
            /\ version = 0
            /\ affectedTransferIds = <<>>
            /\ events = EmptyMap
            /\ transfers = EmptyMap
            /\ seenEventIds = EmptyMap
            /\ rejectedDuplicates = EmptyMap
            /\ arrivalOrderCounters = EmptyMap)
    /\ [][(ret.op = "clear" /\ ret'.op = "addEvent") =>
            /\ ~ret'.isDuplicate
            /\ ret'.found
            /\ version' = 1
            /\ Len(events'[ret'.transfer_id]) = 1
            /\ events'[ret'.transfer_id][1].arrival_order = 1
            /\ transfers'[ret'.transfer_id].event_count = 1]_vars

\* A store with two transfers, a rejected duplicate and version 3 was cleared,
\* and an event_id that it had seen was accepted again.
C33_Witness ==
    /\ handlers.version = 3
    /\ DOMAIN handlers.seen = {"tr_a", "tr_b"}
    /\ ret.op = "addEvent"
    /\ ~ret.isDuplicate
    /\ ret.event_id \in handlers.seen[ret.transfer_id]
    /\ version = 1
    /\ events[ret.transfer_id][1].arrival_order = 1


\* The orders in which n events can be submitted.
SubmissionOrders(n) ==
    {p \in [1..n -> 1..n] : \A i, j \in 1..n : i # j => p[i] # p[j]}

\* The log that the events of log leave when they are submitted in the order p.
SubmittedInOrder(log, p) ==
    [i \in 1..Len(log) |-> [log[p[i]] EXCEPT !.arrival_order = i]]

\* A sequence of events without their arrival_order.
UpToArrivalOrder(seq) ==
    [i \in 1..Len(seq) |->
        [transfer_id |-> seq[i].transfer_id, event_id |-> seq[i].event_id,
         status |-> seq[i].status, timestamp |-> seq[i].timestamp,
         reason |-> seq[i].reason]]

(***************************************************************************)
(* C34: the derived state does not depend on the order of submission: for  *)
(* every transfer, the cached current_status, is_terminal, last_updated,   *)
(* event_count and warnings, and the events sequence up to arrival_order,  *)
(* are those that every other order of submission of the accepted events   *)
(* (which have pairwise distinct event_ids) ends with.                     *)
(***************************************************************************)
C34_OrderOfSubmissionIsIrrelevant ==
    \A t \in DOMAIN transfers :
        \A p \in SubmissionOrders(Len(events[t])) :
            LET other == computeTransferState(t, SubmittedInOrder(events[t], p), <<>>)
            IN  /\ transfers[t].current_status = other.current_status
                /\ transfers[t].is_terminal = other.is_terminal
                /\ transfers[t].last_updated = other.last_updated
                /\ transfers[t].event_count = other.event_count
                /\ transfers[t].warnings = other.warnings
                /\ UpToArrivalOrder(transfers[t].events) = UpToArrivalOrder(other.events)


(***************************************************************************)
(* C35: for every transfer, the set of seen event_ids is the set of the    *)
(* event_ids of its stored log, no two entries of the log have the same    *)
(* event_id, and the cached event_count is the length of the log and the   *)
(* size of the seen set.                                                   *)
(***************************************************************************)
C35_SeenIdsAreTheLog ==
    /\ DOMAIN seenEventIds = DOMAIN events
    /\ DOMAIN transfers = DOMAIN events
    /\ \A t \in DOMAIN events :
          /\ seenEventIds[t] = {events[t][i].event_id : i \in 1..Len(events[t])}
          /\ \A i, j \in 1..Len(events[t]) :
                i # j => events[t][i].event_id # events[t][j].event_id
          /\ transfers[t].event_count = Len(events[t])
          /\ transfers[t].event_count = Cardinality(seenEventIds[t])

\* A transfer with two stored events, one of which was submitted again and
\* rejected.
C35_Witness ==
    \E t \in DOMAIN events :
        /\ Len(events[t]) = 2
        /\ Cardinality(seenEventIds[t]) = 2
        /\ t \in DOMAIN rejectedDuplicates
        /\ Len(rejectedDuplicates[t]) > 0


(***************************************************************************)
(* C36: transfers are isolated: addEvent for transfer A, accepted or       *)
(* rejected as a duplicate, and recomputeTransfer of A change neither the  *)
(* log, the seen event_ids, the rejected duplicates nor the cached         *)
(* Transfer of any other transfer B.                                       *)
(***************************************************************************)
C36_TransfersAreIsolated ==
    [][ret'.op \in {"addEvent", "recomputeTransfer"} =>
          \A B \in TransferIds \ {ret'.transfer_id} :
              /\ (B \in DOMAIN events') = (B \in DOMAIN events)
              /\ (B \in DOMAIN seenEventIds') = (B \in DOMAIN seenEventIds)
              /\ (B \in DOMAIN rejectedDuplicates') = (B \in DOMAIN rejectedDuplicates)
              /\ (B \in DOMAIN transfers') = (B \in DOMAIN transfers)
              /\ B \in DOMAIN events => events'[B] = events[B]
              /\ B \in DOMAIN seenEventIds => seenEventIds'[B] = seenEventIds[B]
              /\ B \in DOMAIN rejectedDuplicates =>
                    rejectedDuplicates'[B] = rejectedDuplicates[B]
              /\ B \in DOMAIN transfers => transfers'[B] = transfers[B]]_vars

\* A duplicate was rejected for tr_a while tr_b has a stored event and no
\* rejected duplicate.
C36_Witness ==
    /\ ret.op = "addEvent"
    /\ ret.isDuplicate
    /\ ret.transfer_id = "tr_a"
    /\ "tr_b" \in DOMAIN transfers
    /\ "tr_b" \notin DOMAIN rejectedDuplicates
    /\ "tr_a" \in DOMAIN rejectedDuplicates


(***************************************************************************)
(* C37: the version and the affected set stay in step: in every state the  *)
(* affected set is non-empty if and only if the version is greater than it *)
(* was at the last call of getAffectedTransferIds (or at the start, or at  *)
(* the last clear), and the affected set has at most as many ids as the    *)
(* version has advanced since; so a call of getAffectedTransferIds at an   *)
(* unchanged version returns an empty list.                                *)
(***************************************************************************)
C37_VersionAndAffectedInStep ==
    /\ []((affectedTransferIds # <<>>) <=> (version > handlers.version))
    /\ [](Len(affectedTransferIds) <= version - handlers.version)
    /\ [][(ret'.op = "getAffectedTransferIds" /\ version = handlers.version) =>
             ret'.ids = <<>>]_vars

\* After a drain at version 1 the version advanced by two, for one transfer.
C37_Witness ==
    /\ handlers.version = 1
    /\ version = 3
    /\ Len(affectedTransferIds) = 1


(***************************************************************************)
(* C38: warnings only reference stored events: in every cached Transfer,   *)
(* every event_id that a warning lists is the event_id of an element of    *)
(* events[] of that Transfer, and no warning has an empty event_ids list.  *)
(***************************************************************************)
C38_WarningsReferenceStoredEvents ==
    \A t \in DOMAIN transfers :
        \A i \in 1..Len(transfers[t].warnings) :
            LET listed == transfers[t].warnings[i].event_ids
            IN  /\ Len(listed) > 0
                /\ \A k \in 1..Len(listed) :
                      \E j \in 1..Len(transfers[t].events) :
                          transfers[t].events[j].event_id = listed[k]

\* A Transfer with warnings of three types, one of which lists a single event
\* of the three stored.
C38_Witness ==
    \E t \in DOMAIN transfers :
        /\ Len(transfers[t].events) = 3
        /\ Len(transfers[t].warnings) >= 3
        /\ \E i \in 1..Len(transfers[t].warnings) :
              Len(transfers[t].warnings[i].event_ids) = 1


(***************************************************************************)
(* C39: a transfer that left a terminal state is flagged: every cached     *)
(* Transfer with is_terminal = false whose log has a terminal event        *)
(* timestamped strictly earlier than last_updated carries an               *)
(* event_after_terminal warning that lists the event which gives           *)
(* current_status (the last element of events[]).                          *)
(***************************************************************************)
C39_LeftTerminalIsFlagged ==
    \A t \in DOMAIN transfers :
        (/\ ~transfers[t].is_terminal
         /\ \E i \in 1..Len(events[t]) :
               /\ events[t][i].status \in {"settled", "failed"}
               /\ getTime(events[t][i].timestamp) < getTime(transfers[t].last_updated))
        => \E w \in 1..Len(transfers[t].warnings) :
              /\ transfers[t].warnings[w].type = "event_after_terminal"
              /\ \E k \in 1..Len(transfers[t].warnings[w].event_ids) :
                    transfers[t].warnings[w].event_ids[k]
                        = transfers[t].events[Len(transfers[t].events)].event_id

\* A Transfer that is not terminal though a terminal event, which arrived last,
\* is earlier than two later events; the warning lists both.
C39_Witness ==
    \E t \in DOMAIN transfers :
        /\ Len(events[t]) = 3
        /\ ~transfers[t].is_terminal
        /\ events[t][3].status \in {"settled", "failed"}
        /\ getTime(events[t][3].timestamp) < getTime(events[t][1].timestamp)
        /\ getTime(events[t][3].timestamp) < getTime(events[t][2].timestamp)
        /\ \E w \in 1..Len(transfers[t].warnings) :
              /\ transfers[t].warnings[w].type = "event_after_terminal"
              /\ Len(transfers[t].warnings[w].event_ids) = 2

====
